---------------------------- MODULE Spec2Model ----------------------------
(***************************************************************************)
(* Tree support generator (libslic3r/TreeSupport.cpp).                     *)
(*                                                                         *)
(* Geometry is modelled on a one-dimensional integer lattice: a Polygons   *)
(* object is the set of lattice cells it covers, area() is the number of   *)
(* cells, an offset by d is the dilation by d cells, and a Point is a      *)
(* cell.  One lattice step stands for 5 scaled coordinate units, so that   *)
(* the "5 microns" of extra speed of increase_areas_one_layer is one       *)
(* step.  The area of one cell is above tiny_area_threshold, the area of   *)
(* the empty set is below it.                                              *)
(***************************************************************************)
EXTENDS Integers, Sequences, FiniteSets, TLC

VARIABLES
    config,         \* TreeSupportSettings of the run (immutable once chosen)
    object,         \* the sliced object: layer -> set of cells it occupies
    move_bounds,    \* std::vector<SupportElements>: layer -> sequence of elements
    pc,             \* position of the run inside its driver
    layer_idx,      \* loop variable of the stage in progress
    merge_every_x_layers,   \* create_layer_pathing local
    last_merge_layer_idx,   \* create_layer_pathing local
    new_element,            \* create_layer_pathing local
    overhangs,      \* generate_overhangs output: object layer -> overhang cells
    snapshot,       \* copy of the input of the operation under study
    cancelled,      \* the cancellation predicate of throw_on_cancel
    output,         \* what generate_support_areas produced so far
    merging         \* the Merger under study: its input and what it returned

vars == << config, object, move_bounds, pc, layer_idx, merge_every_x_layers,
           last_merge_layer_idx, new_element, overhangs, snapshot, cancelled, output,
           merging >>

----------------------------------------------------------------------------
(* Bounds of the model. *)

\* Number of lattice cells of a layer.
Width == 8
\* Largest number of layers of move_bounds (num_support_layers); the object
\* has one layer more (layer_count).
NumLayers == 5

Cells == 0 .. (Width - 1)
Layers == 0 .. (NumLayers - 1)
ObjectLayers == 0 .. NumLayers

----------------------------------------------------------------------------
(* Small helpers. *)

Max(a, b) == IF a >= b THEN a ELSE b
Min(a, b) == IF a <= b THEN a ELSE b
Abs(a) == IF a >= 0 THEN a ELSE 0 - a

\* round_up_divide(dividend, divisor)
round_up_divide(a, b) == (a + b - 1) \div b

\* A point that is not set (SupportElementState::result_on_layer_reset).
NoPoint == 0 - 1

----------------------------------------------------------------------------
(* Polygon operations on cell sets. *)

\* offset(S, d), d >= 0, ClipperLib::jtRound: dilation.
Offset(S, d) == { x \in Cells : \E y \in S : Abs(x - y) <= d }

\* offset(S, -d): erosion (the cells whose whole d-neighbourhood is in S).
Erode(S, d) == { x \in S : \A y \in Cells : Abs(x - y) <= d => y \in S }

\* area(S) > tiny_area_threshold
HasArea(S) == S # {}

\* move_inside_if_outside(polygons, from): from itself when inside, else the
\* closest cell of the polygons (the lower one of two equally close cells);
\* from is returned unchanged when the polygons are empty.
move_inside_if_outside(S, from) ==
    IF from \in S \/ S = {} THEN from
    ELSE LET best == CHOOSE d \in 0 .. Width :
                        /\ \E y \in S : Abs(y - from) = d
                        /\ \A y \in S : Abs(y - from) >= d
         IN  IF (from - best) \in S THEN from - best ELSE from + best

\* The offsetting loop of safe_offset_inc: `steps' dilations by step_size,
\* each followed by the difference with the collision.
RECURSIVE OffsetSteps(_, _, _, _)
OffsetSteps(S, steps, step_size, collision) ==
    IF steps <= 0 THEN S
    ELSE OffsetSteps(Offset(S, step_size) \ collision, steps - 1, step_size, collision)

\* safe_offset_inc(me, distance, collision, safe_step_size,
\*                 last_step_offset_without_check, min_amount_offset)
safe_offset_inc(me, distance, collision, safe_step_size, last_step_offset_without_check, min_amount_offset) ==
    LET do_final0 == last_step_offset_without_check = 0
        steps0 == IF distance > last_step_offset_without_check
                  THEN (distance - last_step_offset_without_check) \div safe_step_size
                  ELSE 0
        over == distance - steps0 * safe_step_size > last_step_offset_without_check
        steps1 == IF over /\ (steps0 + 1) * safe_step_size <= distance THEN steps0 + 1 ELSE steps0
        do_final == do_final0 \/ (over /\ ~((steps0 + 1) * safe_step_size <= distance))
        partial == IF distance < last_step_offset_without_check \/ distance % safe_step_size # 0 THEN 1 ELSE 0
        reduce == steps1 + partial < min_amount_offset /\ min_amount_offset > 1
        step_red == distance \div min_amount_offset
        step_size == IF reduce /\ step_red < safe_step_size THEN step_red ELSE safe_step_size
        steps == IF ~reduce THEN steps1
                 ELSE IF step_red >= safe_step_size THEN min_amount_offset
                 ELSE distance \div step_red
        stepped == OffsetSteps(me, steps, step_size, collision)
        last_offset == distance - steps * step_size
        ret == IF last_offset > 0 THEN Offset(stepped, last_offset) ELSE stepped
    IN  IF distance = 0
        THEN (IF do_final0 THEN me \ collision ELSE me)
        ELSE IF do_final THEN ret \ collision ELSE ret

----------------------------------------------------------------------------
(* TreeSupportSettings.  Lengths are in lattice steps.  The configurations *)
(* have diameter_scale_bp_radius = 0 (no elephant foot: the foot term of   *)
(* getRadius is zero and elephant_foot_increases never changes a radius),  *)
(* z_distance_top_layers = z_distance_bottom_layers = 0.  The              *)
(* support_line_width is below one lattice step.  support_roof_layers is   *)
(* the number of roof layers of generate_initial_areas (0: no roof         *)
(* interface); minimum_roof_area is above the area of the lattice, so no   *)
(* roof is ever large enough to be stored and the tips of a roof that      *)
(* could not be added are told not to move instead.                        *)

BaseConfig ==
    [ support_rests_on_model       |-> FALSE,
      maximum_move_distance        |-> 4,
      maximum_move_distance_slow   |-> 2,
      xy_distance                  |-> 1,
      xy_min_distance              |-> 1,
      min_feature_size             |-> 1,
      tip_layers                   |-> 2,
      min_radius                   |-> 0,
      branch_radius                |-> 2,
      branch_radius_increase_per_layer |-> 0,
      increase_radius_until_radius |-> 2,
      min_dtt_to_model             |-> 1,
      max_to_model_radius_increase |-> 1,
      layer_height                 |-> 1000,
      support_line_width           |-> 0,
      support_roof_layers          |-> 0,
      minimum_roof_area            |-> Width + 1,
      num_threads                  |-> 1 ]

ConfigSet ==
    { [ BaseConfig EXCEPT !.support_rests_on_model = rest, !.num_threads = th ] :
        rest \in BOOLEAN, th \in {1, 2} }

\* TreeSupportSettings::getRadius(distance_to_top, elephant_foot_increases = 0)
getRadiusAt(distance_to_top) ==
    IF distance_to_top <= config.tip_layers
    THEN config.min_radius
         + ((config.branch_radius - config.min_radius) * distance_to_top) \div config.tip_layers
    ELSE config.branch_radius
         + (distance_to_top - config.tip_layers) * config.branch_radius_increase_per_layer

\* TreeSupportSettings::getRadius(const SupportElementState&): the real radius.
getRadius(state) == getRadiusAt(state.distance_to_top)

\* TreeSupportSettings::getCollisionRadius(const SupportElementState&)
getCollisionRadius(state) == getRadiusAt(state.effective_radius_height)

----------------------------------------------------------------------------
(* TreeModelVolumes: the volume oracle, computed from the object.          *)

\* AvoidanceType, in the order of the enum (std::min is taken over it).
Slow == 0
FastSafe == 1
Fast == 2

xy_dist_of(min_xy_dist) ==
    IF min_xy_dist THEN config.xy_min_distance ELSE config.xy_distance

\* getCollision(radius, layer, min_xy_dist): the object dilated by the
\* radius and the XY clearance.
getCollision(radius, layer, min_xy_dist) ==
    Offset(object[layer], radius + xy_dist_of(min_xy_dist))

\* The collision with its holes closed (used by the FastSafe avoidance).
getCollisionHolefree(radius, layer, min_xy_dist) ==
    LET c == getCollision(radius, layer, min_xy_dist)
    IN  c \cup { x \in Cells : (x - 1) \in c /\ (x + 1) \in c }

\* getPlaceableAreas(radius, layer): model surface just below the layer on
\* which a branch of that radius can stand.
getPlaceableAreas(radius, layer) ==
    IF layer = 0 THEN {}
    ELSE getCollision(radius, layer - 1, FALSE) \ getCollision(radius, layer, FALSE)

avoidance_speed(type) ==
    IF type = Slow THEN config.maximum_move_distance_slow ELSE config.maximum_move_distance

\* getAvoidance(radius, layer, type, to_model, min_xy_dist): the cells from
\* which a branch of that radius cannot reach the build plate (to_model =
\* FALSE) or a placeable surface (to_model = TRUE) moving at most the speed
\* of the avoidance type per layer.
RECURSIVE getAvoidance(_, _, _, _, _)
getAvoidance(radius, layer, type, to_model, min_xy_dist) ==
    LET col == IF type = FastSafe
               THEN getCollisionHolefree(radius, layer, min_xy_dist)
               ELSE getCollision(radius, layer, min_xy_dist)
    IN  IF layer = 0 THEN col
        ELSE LET below == getAvoidance(radius, layer - 1, type, to_model, min_xy_dist)
                 latest == Erode(below, avoidance_speed(type)) \cup col
             IN  IF to_model THEN latest \ getPlaceableAreas(radius, layer) ELSE latest

\* getWallRestriction(radius, layer, min_xy_dist)
getWallRestriction(radius, layer, min_xy_dist) ==
    IF layer = 0 THEN {}
    ELSE getCollision(0, layer, min_xy_dist) \cap getCollision(radius, layer - 1, min_xy_dist)

\* ceilRadius / getRadiusNextCeil: the radius ladder holds every lattice radius.
ceilRadius(radius, min_xy_dist) == radius
getRadiusNextCeil(radius, min_xy_dist) == radius

----------------------------------------------------------------------------
(* SupportElementState, SupportElement and the tips.                       *)

\* AreaIncreaseSettings as a record, and its default value.
AreaIncreaseSettings(type, increase_speed, increase_radius, no_error, use_min_distance, move) ==
    [ type |-> type, increase_speed |-> increase_speed, increase_radius |-> increase_radius,
      no_error |-> no_error, use_min_distance |-> use_min_distance, move |-> move ]

DefaultAreaIncreaseSettings == AreaIncreaseSettings(Fast, 0, FALSE, FALSE, FALSE, FALSE)

\* LineStatus of a tip point.
INVALID == "INVALID"
TO_MODEL == "TO_MODEL"
TO_MODEL_GRACIOUS == "TO_MODEL_GRACIOUS"
TO_MODEL_GRACIOUS_SAFE == "TO_MODEL_GRACIOUS_SAFE"
TO_BP == "TO_BP"
TO_BP_SAFE == "TO_BP_SAFE"

\* min_xy_dist of generate_initial_areas and convert_lines_to_internal
tip_min_xy_dist == config.xy_distance > config.xy_min_distance

\* convert_lines_to_internal, for one point: the status of the point, INVALID
\* for a point that is dropped.
convert_lines_to_internal(p, layer) ==
    LET r0 == getRadiusAt(0)
        m  == tip_min_xy_dist
    IN  IF p \notin getAvoidance(r0, layer, FastSafe, FALSE, m) THEN TO_BP_SAFE
        ELSE IF p \notin getAvoidance(r0, layer, Fast, FALSE, m) THEN TO_BP
        ELSE IF config.support_rests_on_model /\ p \notin getAvoidance(r0, layer, FastSafe, TRUE, m)
             THEN TO_MODEL_GRACIOUS_SAFE
        ELSE IF config.support_rests_on_model /\ p \notin getAvoidance(r0, layer, Fast, TRUE, m)
             THEN TO_MODEL_GRACIOUS
        ELSE IF config.support_rests_on_model /\ p \notin getCollision(r0, layer, m)
             THEN TO_MODEL
        ELSE INVALID

\* The SupportElement that addPointAsInfluenceArea emplaces for a point of
\* the given status (distance to top dtt, no roof).
TipElement(p, status, dtt, insert_layer, dont_move_until, roof, skip_ovalisation) ==
    [ state |->
        [ layer_idx               |-> insert_layer,
          target_height           |-> insert_layer,
          target_position         |-> p,
          next_position           |-> p,
          result_on_layer         |-> p,
          effective_radius_height |-> dtt,
          distance_to_top         |-> dtt,
          to_buildplate           |-> status \in {TO_BP, TO_BP_SAFE},
          to_model_gracious       |-> status \in {TO_BP, TO_BP_SAFE, TO_MODEL_GRACIOUS, TO_MODEL_GRACIOUS_SAFE},
          use_min_xy_dist         |-> tip_min_xy_dist,
          supports_roof           |-> roof,
          can_use_safe_radius     |-> status \in {TO_BP_SAFE, TO_MODEL_GRACIOUS_SAFE},
          skip_ovalisation        |-> skip_ovalisation,
          dont_move_until         |-> dont_move_until,
          increased_to_model_radius |-> 0,
          elephant_foot_increases |-> 0,
          missing_roof_layers     |-> 0,
          last_area_increase      |-> DefaultAreaIncreaseSettings,
          deleted                 |-> FALSE,
          marked                  |-> FALSE ],
      parents        |-> << >>,
      influence_area |-> {p} ]

\* addPointAsInfluenceArea: the layer after the point was offered.  A point
\* that cannot reach the build plate is refused when support may not rest on
\* the model, and a point is inserted once (already_inserted).
addPointAsInfluenceArea(layer, p, status, insert_layer, dont_move_until, roof) ==
    IF ~config.support_rests_on_model /\ status \notin {TO_BP, TO_BP_SAFE} THEN layer
    ELSE IF \E i \in 1 .. Len(layer) :
                layer[i].state.target_height = insert_layer /\ layer[i].state.target_position = p
         THEN layer
    ELSE Append(layer, TipElement(p, status, 0, insert_layer, dont_move_until, roof, FALSE))

\* SupportElementState::propagate_down
propagate_down(state) ==
    [ state EXCEPT !.distance_to_top = @ + 1,
                   !.layer_idx = @ - 1,
                   !.result_on_layer = NoPoint,
                   !.skip_ovalisation = FALSE ]

----------------------------------------------------------------------------
(* The propagator: increase_single_area and increase_areas_one_layer.      *)

\* safe_movement_distance (z_distance_top_layers = z_distance_bottom_layers = 0)
safe_movement_distance(use_min_xy_dist) == xy_dist_of(use_min_xy_dist)

\* A fault of the avoidance subtraction: the collision is subtracted in
\* place of the avoidance.
diff_avoidance_collision_only(increased, radius, lidx, settings, to_model) ==
    increased \ getCollision(radius, lidx - 1, settings.use_min_distance)

\* increased \ getAvoidance(radius, layer_idx - 1, settings.type, to_model,
\* settings.use_min_distance)
diff_avoidance(increased, radius, lidx, settings, to_model) ==
    increased \ getAvoidance(radius, lidx - 1, settings.type, to_model, settings.use_min_distance)

\* increased \ getCollision(radius, layer_idx - 1, settings.use_min_distance)
diff_collision(increased, radius, lidx, settings) ==
    increased \ getCollision(radius, lidx - 1, settings.use_min_distance)

\* increase_single_area is translated as a chain of operators, one for each
\* block of the function; each passes what it computed to the next one.
\* current_elem after `effective_radius_height += 1'.
single_area_current_elem(settings, parent) ==
    IF settings.increase_radius
    THEN [ propagate_down(parent.state) EXCEPT !.effective_radius_height = @ + 1 ]
    ELSE propagate_down(parent.state)

\* The output argument `increased'.
single_area_increased(settings, lidx, parent, relevant_offset, overspeed) ==
    IF ~settings.move THEN parent.influence_area
    ELSE IF overspeed <= 0 THEN relevant_offset
    ELSE safe_offset_inc(relevant_offset, overspeed,
            getWallRestriction(getCollisionRadius(parent.state), lidx, parent.state.use_min_xy_dist),
            safe_movement_distance(parent.state.use_min_xy_dist),
            safe_movement_distance(parent.state.use_min_xy_dist)
                + getCollisionRadius(single_area_current_elem(settings, parent)),
            1)

\* validWithRadius(next_radius), radius being the radius on entry.
validWithRadius(settings, lidx, elem, increased, radius, next_radius) ==
    IF ceilRadius(next_radius, settings.use_min_distance) <= ceilRadius(radius, settings.use_min_distance)
    THEN TRUE
    ELSE IF elem.to_buildplate
    THEN HasArea(diff_avoidance(increased, next_radius, lidx, settings, FALSE))
    ELSE IF ~config.support_rests_on_model THEN FALSE
    ELSE IF elem.to_model_gracious
    THEN HasArea(diff_avoidance(increased, next_radius, lidx, settings, TRUE))
    ELSE HasArea(diff_collision(increased, next_radius, lidx, settings))

\* The first while loop of the catch up: current_ceil_radius afterwards.
RECURSIVE catch_up_ceil_radius(_, _, _, _, _, _)
catch_up_ceil_radius(settings, lidx, elem, increased, radius, current_ceil_radius) ==
    IF /\ current_ceil_radius < Min(getRadius(elem), config.increase_radius_until_radius)
       /\ validWithRadius(settings, lidx, elem, increased, radius,
                          getRadiusNextCeil(current_ceil_radius + 1, settings.use_min_distance))
    THEN catch_up_ceil_radius(settings, lidx, elem, increased, radius,
                              getRadiusNextCeil(current_ceil_radius + 1, settings.use_min_distance))
    ELSE current_ceil_radius

\* The second while loop of the catch up: resulting_eff_dtt afterwards.
RECURSIVE catch_up_eff_dtt(_, _, _)
catch_up_eff_dtt(elem, current_ceil_radius, resulting_eff_dtt) ==
    IF /\ resulting_eff_dtt + 1 < elem.distance_to_top
       /\ getRadiusAt(resulting_eff_dtt + 1) <= current_ceil_radius
       /\ getRadiusAt(resulting_eff_dtt + 1) <= getRadius(elem)
    THEN catch_up_eff_dtt(elem, current_ceil_radius, resulting_eff_dtt + 1)
    ELSE resulting_eff_dtt

\* The block `if (settings.increase_radius && area(check_layer_data) > tiny)'
\* up to `radius = getCollisionRadius(current_elem)': current_elem afterwards.
\* With diameter_scale_bp_radius = 0 the elephant foot never changes it.
single_area_catch_up(settings, lidx, elem, increased, radius, check_layer_data) ==
    IF /\ settings.increase_radius
       /\ HasArea(check_layer_data)
       /\ getCollisionRadius(elem) < config.increase_radius_until_radius
       /\ getCollisionRadius(elem) < getRadius(elem)
    THEN [ elem EXCEPT !.effective_radius_height =
             catch_up_eff_dtt(elem,
                 catch_up_ceil_radius(settings, lidx, elem, increased, radius,
                                      getRadiusNextCeil(radius, settings.use_min_distance)),
                 @) ]
    ELSE elem

\* The end of the function: the areas are computed again when the ceiled
\* radius changed, and the result is valid when check_layer_data has area.
single_area_result(settings, lidx, mergelayer, elem, increased, changed, to_bp_data, to_model_data) ==
    [ ok |-> HasArea(IF elem.to_buildplate
                     THEN (IF changed THEN diff_avoidance(increased, getCollisionRadius(elem), lidx, settings, FALSE)
                           ELSE to_bp_data)
                     ELSE IF changed /\ config.support_rests_on_model
                     THEN (IF elem.to_model_gracious
                           THEN diff_avoidance(increased, getCollisionRadius(elem), lidx, settings, TRUE)
                           ELSE diff_collision(increased, getCollisionRadius(elem), lidx, settings))
                     ELSE to_model_data),
      state |-> elem,
      to_bp_data |->
          IF changed /\ elem.to_buildplate
          THEN diff_avoidance(increased, getCollisionRadius(elem), lidx, settings, FALSE)
          ELSE to_bp_data,
      to_model_data |->
          IF changed /\ config.support_rests_on_model /\ (~elem.to_buildplate \/ mergelayer)
          THEN (IF elem.to_model_gracious
                THEN diff_avoidance(increased, getCollisionRadius(elem), lidx, settings, TRUE)
                ELSE diff_collision(increased, getCollisionRadius(elem), lidx, settings))
          ELSE to_model_data,
      increased |-> increased ]

\* After the catch up (elem is current_elem after it, radius the radius on
\* entry).
single_area_after_catch_up(settings, lidx, mergelayer, elem, increased, radius, to_bp_data, to_model_data) ==
    single_area_result(settings, lidx, mergelayer, elem, increased,
        /\ settings.increase_radius
        /\ HasArea(IF elem.to_buildplate THEN to_bp_data ELSE to_model_data)
        /\ ceilRadius(radius, settings.use_min_distance)
             # ceilRadius(getCollisionRadius(elem), settings.use_min_distance),
        to_bp_data, to_model_data)

\* After the block `if (config.support_rests_on_model)'.
single_area_after_to_model(settings, lidx, mergelayer, elem, increased, radius, to_bp_data, to_model_data) ==
    single_area_after_catch_up(settings, lidx, mergelayer,
        single_area_catch_up(settings, lidx, elem, increased, radius,
                             IF elem.to_buildplate THEN to_bp_data ELSE to_model_data),
        increased, radius, to_bp_data, to_model_data)

\* The block `if (! current_elem.to_model_gracious)', to_model_data being the
\* area the line above it left.
single_area_to_model_gracious(settings, lidx, mergelayer, elem, increased, radius, to_bp_data, to_model_data) ==
    IF ~config.support_rests_on_model \/ elem.to_model_gracious
    THEN single_area_after_to_model(settings, lidx, mergelayer, elem, increased, radius,
                                    to_bp_data, to_model_data)
    ELSE IF mergelayer /\ HasArea(to_model_data)
    THEN single_area_after_to_model(settings, lidx, mergelayer,
                                    [ elem EXCEPT !.to_model_gracious = TRUE ], increased, radius,
                                    to_bp_data, to_model_data)
    ELSE single_area_after_to_model(settings, lidx, mergelayer, elem, increased, radius,
                                    to_bp_data, diff_collision(increased, radius, lidx, settings))

\* A fault of the block `if (mergelayer || current_elem.to_buildplate)': the
\* taint of to_buildplate is never corrected.
single_area_after_to_bp_tainted(settings, lidx, mergelayer, elem, increased, to_bp_data, to_model_data0) ==
    single_area_to_model_gracious(settings, lidx, mergelayer, elem,
        increased, getCollisionRadius(elem), to_bp_data,
        IF config.support_rests_on_model /\ (mergelayer \/ elem.to_model_gracious)
        THEN diff_avoidance(increased, getCollisionRadius(elem), lidx, settings, TRUE)
        ELSE to_model_data0)

\* After the block `if (mergelayer || current_elem.to_buildplate)', to_bp_data
\* being the area it left: the taint of to_buildplate is corrected, and
\* to_model_data is computed for a merge layer or a gracious element.
single_area_after_to_bp(settings, lidx, mergelayer, elem, increased, to_bp_data, to_model_data0) ==
    single_area_to_model_gracious(settings, lidx, mergelayer,
        IF mergelayer /\ ~elem.to_buildplate /\ HasArea(to_bp_data)
        THEN [ elem EXCEPT !.to_buildplate = TRUE ] ELSE elem,
        increased, getCollisionRadius(elem), to_bp_data,
        IF config.support_rests_on_model /\ (mergelayer \/ elem.to_model_gracious)
        THEN diff_avoidance(increased, getCollisionRadius(elem), lidx, settings, TRUE)
        ELSE to_model_data0)

\* After `increased' is computed.
single_area_after_increase(settings, lidx, mergelayer, elem, increased, to_bp_data0, to_model_data0) ==
    single_area_after_to_bp(settings, lidx, mergelayer, elem, increased,
        IF mergelayer \/ elem.to_buildplate
        THEN diff_avoidance(increased, getCollisionRadius(elem), lidx, settings, FALSE)
        ELSE to_bp_data0,
        to_model_data0)

\* increase_single_area.  to_bp_data0 and to_model_data0 are the values the
\* two output arguments hold on entry (they are left alone on the paths that
\* do not assign them).  Returns whether a valid element results (ok), the
\* element state, and the three output areas.
increase_single_area(settings, lidx, parent, relevant_offset, to_bp_data0, to_model_data0, overspeed, mergelayer) ==
    single_area_after_increase(settings, lidx, mergelayer,
        single_area_current_elem(settings, parent),
        single_area_increased(settings, lidx, parent, relevant_offset, overspeed),
        to_bp_data0, to_model_data0)

\* A fault of insertSetting: the setting is inserted without the search for
\* an equal one.
insertSetting_unchecked(order, settings, back) ==
    IF back THEN Append(order, settings) ELSE << settings >> \o order

\* A fault of insertSetting: the setting is put at the back whatever `back'.
insertSetting_at_back(order, settings, back) ==
    IF \E i \in 1 .. Len(order) : order[i] = settings THEN order
    ELSE Append(order, settings)

\* insertSetting of increase_areas_one_layer
insertSetting(order, settings, back) ==
    IF \E i \in 1 .. Len(order) : order[i] = settings THEN order
    ELSE IF back THEN Append(order, settings) ELSE << settings >> \o order

\* insertSetting(..., true) for each setting of a list, in turn.
RECURSIVE insertSettings(_, _)
insertSettings(order, list) ==
    IF list = << >> THEN order
    ELSE insertSettings(insertSetting(order, Head(list), TRUE), Tail(list))

\* The duplication of the order for an element that uses min_xy_dist.
RECURSIVE with_min_distance(_)
with_min_distance(order) ==
    IF order = << >> THEN << >>
    ELSE << Head(order), [ Head(order) EXCEPT !.use_min_distance = TRUE ] >>
         \o with_min_distance(Tail(order))

\* The extra speed added to both movement distances ("5 microns"): one step.
extra_speed_base == 1

\* extra_speed and extra_slow_speed of increase_areas_one_layer for a parent.
extra_speeds(parent) ==
    LET ceiled_parent_radius == ceilRadius(getCollisionRadius(parent.state), parent.state.use_min_xy_dist)
        projected_radius_increased == getRadiusAt(parent.state.effective_radius_height + 1)
        projected_radius_delta == projected_radius_increased - getCollisionRadius(parent.state)
        guaranteed == \/ ceiled_parent_radius = ceilRadius(projected_radius_increased, parent.state.use_min_xy_dist)
                      \/ projected_radius_increased < config.increase_radius_until_radius
    IN  IF guaranteed
        THEN [ extra_speed |-> extra_speed_base + projected_radius_delta, extra_slow_speed |-> 0 ]
        ELSE [ extra_speed |-> extra_speed_base,
               extra_slow_speed |-> Min(projected_radius_delta,
                                        (config.maximum_move_distance + extra_speed_base)
                                        - config.maximum_move_distance_slow) ]

\* The order in which increase_areas_one_layer tries the settings for the
\* element elem (the parent propagated down) of collision radius `radius'.
settings_order(elem, parent, lidx, mergelayer, slow_speed, fast_speed, radius) ==
    LET last == elem.last_area_increase
        parent_moved_slow == last.increase_speed < config.maximum_move_distance
        avoidance_speed_mismatch == parent_moved_slow /\ last.type # Slow
        S(type, speed, inc, no_error, use_min, move) ==
            AreaIncreaseSettings(type, speed, inc, no_error, use_min, move)
        last_speed == IF last.increase_speed < config.maximum_move_distance THEN slow_speed ELSE fast_speed
        order1 ==
            IF /\ last.move /\ last.no_error /\ elem.can_use_safe_radius /\ ~mergelayer
               /\ ~avoidance_speed_mismatch
               /\ (elem.distance_to_top >= config.tip_layers \/ parent_moved_slow)
            THEN insertSettings(<< >>,
                    << S(last.type, last_speed, TRUE, last.no_error, FALSE, last.move),
                       S(last.type, last_speed, FALSE, last.no_error, FALSE, last.move) >>)
            ELSE << >>
        order2 ==
            IF ~elem.can_use_safe_radius
            THEN insertSettings(order1,
                    << S(Slow, slow_speed, TRUE, TRUE, FALSE, FALSE) >>
                    \o (IF elem.distance_to_top < round_up_divide(config.tip_layers, 2)
                        THEN << S(Fast, slow_speed, TRUE, TRUE, FALSE, FALSE) >> ELSE << >>)
                    \o << S(FastSafe, fast_speed, TRUE, TRUE, FALSE, FALSE),
                          S(FastSafe, fast_speed, FALSE, TRUE, FALSE, TRUE),
                          S(Fast, fast_speed, FALSE, TRUE, FALSE, TRUE) >>)
            ELSE insertSettings(order1,
                    << S(Slow, slow_speed, TRUE, TRUE, FALSE, TRUE),
                       S(Slow, slow_speed, FALSE, TRUE, FALSE, TRUE) >>
                    \o (IF elem.distance_to_top < config.tip_layers
                        THEN << S(FastSafe, slow_speed, TRUE, TRUE, FALSE, TRUE) >> ELSE << >>)
                    \o << S(FastSafe, fast_speed, TRUE, TRUE, FALSE, TRUE),
                          S(FastSafe, fast_speed, FALSE, TRUE, FALSE, TRUE) >>)
        order3 == IF elem.use_min_xy_dist THEN with_min_distance(order2) ELSE order2
        order4 ==
            IF \/ elem.to_buildplate
               \/ (elem.to_model_gracious /\ parent.influence_area \cap getPlaceableAreas(radius, lidx) = {})
            THEN insertSetting(order3, S(Fast, fast_speed, FALSE, FALSE, elem.use_min_xy_dist, TRUE), TRUE)
            ELSE order3
    IN  IF elem.distance_to_top < elem.dont_move_until /\ elem.can_use_safe_radius
        THEN insertSetting(order4, S(Slow, 0, TRUE, TRUE, FALSE, FALSE), FALSE)
        ELSE order4

\* The loop over the order: the first setting with a valid result wins.  ctx
\* carries the loop invariants and the to_bp_data / to_model_data left by the
\* settings tried so far.  try_setting_result is the part of the loop body
\* after the call of increase_single_area, result being what the call left.
RECURSIVE try_settings(_, _)
try_setting_result(order, ctx, result) ==
    IF result.ok
    THEN [ add |-> TRUE, settings |-> Head(order), result |-> result ]
    ELSE try_settings(Tail(order),
            [ ctx EXCEPT !.to_bp_data = result.to_bp_data, !.to_model_data = result.to_model_data ])

try_settings(order, ctx) ==
    IF order = << >>
    THEN [ add |-> FALSE ]
    ELSE try_setting_result(order, ctx,
            increase_single_area(Head(order), ctx.lidx, ctx.parent,
                IF ~Head(order).no_error THEN ctx.parent.influence_area
                ELSE IF Head(order).increase_speed = ctx.slow_speed THEN ctx.offset_slow
                ELSE ctx.offset_fast,
                ctx.to_bp_data, ctx.to_model_data,
                IF ~Head(order).no_error
                THEN (3 * (config.maximum_move_distance + ctx.extra_speed)) \div 2 ELSE 0,
                ctx.mergelayer))

\* SupportElementInfluenceAreas
EmptyAreas == [ influence_areas |-> {}, to_bp_areas |-> {}, to_model_areas |-> {} ]

\* offset_independant_faster of increase_areas_one_layer.
offset_independant_faster(radius, smd, es) ==
    (radius \div smd) - (IF config.maximum_move_distance + es.extra_speed < radius + smd THEN 1 ELSE 0)
        > round_up_divide(es.extra_speed + es.extra_slow_speed + config.maximum_move_distance_slow, smd)

\* A fault of the block `if (add)': bypass_merge is not looked at.
increase_area_add_no_bypass(element_idx, lidx, settings, res, elem) ==
    [ add |-> TRUE,
      merging_area |->
        [ state |-> elem,
          parents |-> << element_idx >>,
          areas |->
            [ influence_areas |->
                (res.increased \ getCollision(getCollisionRadius(elem), lidx - 1, elem.use_min_xy_dist))
                    \cup res.to_bp_data \cup res.to_model_data,
              to_bp_areas |-> IF elem.to_buildplate THEN res.to_bp_data ELSE {},
              to_model_areas |-> IF config.support_rests_on_model THEN res.to_model_data ELSE {} ] ] ]

\* The block `if (add)' of increase_areas_one_layer: the merging area built
\* from the element elem that `if (result)' left.
increase_area_add(element_idx, lidx, settings, res, elem) ==
    [ add |-> TRUE,
      merging_area |->
        [ state |-> elem,
          parents |-> << element_idx >>,
          areas |->
            [ influence_areas |->
                (res.increased \ getCollision(getCollisionRadius(elem), lidx - 1, elem.use_min_xy_dist))
                    \cup res.to_bp_data \cup res.to_model_data,
              to_bp_areas |->
                IF /\ settings.move
                   /\ ~(settings.use_min_distance /\ elem.distance_to_top < config.tip_layers)
                   /\ elem.to_buildplate
                THEN res.to_bp_data ELSE {},
              to_model_areas |->
                IF /\ settings.move
                   /\ ~(settings.use_min_distance /\ elem.distance_to_top < config.tip_layers)
                   /\ config.support_rests_on_model
                THEN res.to_model_data ELSE {} ] ] ]

\* A fault of the block `if (result)': can_use_safe_radius is only taken away.
increase_area_found_demoting(element_idx, lidx, parent, found) ==
    IF ~found.add
    THEN [ add |-> FALSE,
           merging_area |-> [ state |-> parent.state, parents |-> << element_idx >>, areas |-> EmptyAreas ] ]
    ELSE increase_area_add(element_idx, lidx, found.settings, found.result,
            [ found.result.state EXCEPT
                !.last_area_increase = found.settings,
                !.dont_move_until = IF found.settings.move THEN 0 ELSE @,
                !.result_on_layer = IF found.settings.move THEN @ ELSE parent.state.result_on_layer,
                !.can_use_safe_radius = IF found.settings.type = Fast THEN FALSE ELSE @,
                !.use_min_xy_dist = IF found.settings.use_min_distance THEN @ ELSE FALSE ])

\* What follows the loop over the order, found being what the loop left.
increase_area_found(element_idx, lidx, parent, found) ==
    IF ~found.add
    THEN [ add |-> FALSE,
           merging_area |-> [ state |-> parent.state, parents |-> << element_idx >>, areas |-> EmptyAreas ] ]
    ELSE increase_area_add(element_idx, lidx, found.settings, found.result,
            [ found.result.state EXCEPT
                !.last_area_increase = found.settings,
                !.dont_move_until = IF found.settings.move THEN 0 ELSE @,
                !.result_on_layer = IF found.settings.move THEN @ ELSE parent.state.result_on_layer,
                !.can_use_safe_radius = (found.settings.type # Fast),
                !.use_min_xy_dist = IF found.settings.use_min_distance THEN @ ELSE FALSE ])

\* The loop over the order, offset_slow being the area increased with the
\* slow speed (the loop computes both offsets when a setting first needs them).
increase_area_try(element_idx, lidx, parent, mergelayer, elem, es, radius, smd, wall_restriction, offset_slow) ==
    increase_area_found(element_idx, lidx, parent,
        try_settings(
            settings_order(elem, parent, lidx, mergelayer,
                config.maximum_move_distance_slow + es.extra_speed + es.extra_slow_speed,
                config.maximum_move_distance + es.extra_speed, radius),
            [ lidx |-> lidx, parent |-> parent, mergelayer |-> mergelayer,
              extra_speed |-> es.extra_speed,
              slow_speed |-> config.maximum_move_distance_slow + es.extra_speed + es.extra_slow_speed,
              offset_slow |-> offset_slow,
              offset_fast |->
                safe_offset_inc(
                    IF offset_independant_faster(radius, smd, es) THEN parent.influence_area ELSE offset_slow,
                    IF offset_independant_faster(radius, smd, es)
                    THEN es.extra_speed + config.maximum_move_distance
                    ELSE config.maximum_move_distance - (config.maximum_move_distance_slow + es.extra_slow_speed),
                    wall_restriction, smd, smd + radius, 1),
              to_bp_data |-> {}, to_model_data |-> {} ]))

\* The body up to the loop over the order: elem is the parent propagated down,
\* es the extra speeds, radius the collision radius of elem, smd the
\* safe_movement_distance.
increase_area_offset(element_idx, lidx, parent, mergelayer, elem, es, radius, smd, wall_restriction) ==
    increase_area_try(element_idx, lidx, parent, mergelayer, elem, es, radius, smd, wall_restriction,
        safe_offset_inc(parent.influence_area,
            es.extra_speed + es.extra_slow_speed + config.maximum_move_distance_slow,
            wall_restriction, smd,
            IF offset_independant_faster(radius, smd, es) THEN smd + radius ELSE 0, 2))

\* The body of the parallel loop of increase_areas_one_layer for the merging
\* area whose only parent is the element element_idx (0-based) of the layer
\* lidx: the SupportElementMerging it leaves, and whether an area was added.
increase_area(element_idx, lidx, layer_elements, mergelayer) ==
    increase_area_offset(element_idx, lidx, layer_elements[element_idx + 1], mergelayer,
        propagate_down(layer_elements[element_idx + 1].state),
        extra_speeds(layer_elements[element_idx + 1]),
        getCollisionRadius(propagate_down(layer_elements[element_idx + 1].state)),
        safe_movement_distance(propagate_down(layer_elements[element_idx + 1].state).use_min_xy_dist),
        getWallRestriction(getCollisionRadius(layer_elements[element_idx + 1].state), lidx,
                           layer_elements[element_idx + 1].state.use_min_xy_dist))

\* increase_areas_one_layer: for each element of the layer lidx, the merging
\* area of the layer below and whether it was added (the parent of an area
\* that was not added gets its result_on_layer reset).
increase_areas_one_layer(lidx, layer_elements, mergelayer) ==
    [ i \in 1 .. Len(layer_elements) |-> increase_area(i - 1, lidx, layer_elements, mergelayer) ]

----------------------------------------------------------------------------
(* The merger.                                                             *)

\* merge_support_element_states.  The fields the function does not assign
\* keep the values of a default-constructed SupportElementState.
merge_support_element_states(first, second, next_position, lidx) ==
    [ layer_idx               |-> lidx,
      target_height           |-> IF first.target_height > second.target_height
                                  THEN first.target_height ELSE second.target_height,
      target_position         |-> IF first.target_height > second.target_height
                                  THEN first.target_position ELSE second.target_position,
      next_position           |-> next_position,
      result_on_layer         |-> NoPoint,
      effective_radius_height |-> Max(first.effective_radius_height, second.effective_radius_height),
      distance_to_top         |-> Max(first.distance_to_top, second.distance_to_top),
      to_buildplate           |-> first.to_buildplate /\ second.to_buildplate,
      to_model_gracious       |-> first.to_model_gracious /\ second.to_model_gracious,
      use_min_xy_dist         |-> first.use_min_xy_dist \/ second.use_min_xy_dist,
      supports_roof           |-> first.supports_roof \/ second.supports_roof,
      can_use_safe_radius     |-> first.can_use_safe_radius \/ second.can_use_safe_radius,
      skip_ovalisation        |-> FALSE,
      dont_move_until         |-> Max(first.dont_move_until, second.dont_move_until),
      increased_to_model_radius |-> 0,
      elephant_foot_increases |-> 0,
      missing_roof_layers     |-> Min(first.missing_roof_layers, second.missing_roof_layers),
      last_area_increase      |->
          AreaIncreaseSettings(
              Min(first.last_area_increase.type, second.last_area_increase.type),
              Min(first.last_area_increase.increase_speed, second.last_area_increase.increase_speed),
              first.last_area_increase.increase_radius \/ second.last_area_increase.increase_radius,
              first.last_area_increase.no_error \/ second.last_area_increase.no_error,
              first.last_area_increase.use_min_distance /\ second.last_area_increase.use_min_distance,
              first.last_area_increase.move \/ second.last_area_increase.move),
      deleted                 |-> FALSE,
      marked                  |-> FALSE ]

\* The cells covered by the bounding box of a merging element.
bbox_cells(areas) == areas.influence_areas \cup areas.to_bp_areas \cup areas.to_model_areas

\* Eigen::AlignedBox::intersects of the box of `small' grown by delta with
\* the box of `big'.
bbox_intersects(small, delta, big) ==
    /\ small # {} /\ big # {}
    /\ \E lo_s \in small, hi_s \in small, lo_b \in big, hi_b \in big :
          /\ \A x \in small : lo_s <= x /\ x <= hi_s
          /\ \A x \in big : lo_b <= x /\ x <= hi_b
          /\ lo_s - delta <= hi_b
          /\ lo_b <= hi_s + delta

\* The lambda intersect_small_with_bigger of
\* merge_influence_areas_two_elements.  The "- 3" of the safe step size is
\* below one lattice step.
intersect_small_with_bigger(lidx, smaller_rad, bigger_rad, small, bigger) ==
    safe_offset_inc(small,
        Abs(getRadius(bigger_rad.state) - getRadius(smaller_rad.state)),
        getCollision(getCollisionRadius(smaller_rad.state), lidx - 1,
                     bigger_rad.state.use_min_xy_dist /\ smaller_rad.state.use_min_xy_dist),
        2 * (config.xy_distance + getCollisionRadius(smaller_rad.state)), 0, 0) \cap bigger

\* A fault of the accumulator: the increase the to-model branch already
\* carries is not added.
merge_increased_to_model_radius_restarted(dst, src) ==
    IF dst.state.to_buildplate = src.state.to_buildplate THEN 0
    ELSE IF dst.state.to_buildplate
    THEN (IF getRadius(src.state) < getRadius(dst.state)
          THEN getRadius(dst.state) - getRadius(src.state) ELSE 0)
    ELSE (IF getRadius(src.state) > getRadius(dst.state)
          THEN getRadius(src.state) - getRadius(dst.state) ELSE 0)

\* increased_to_model_radius of merge_influence_areas_two_elements.
merge_increased_to_model_radius(dst, src) ==
    IF dst.state.to_buildplate = src.state.to_buildplate THEN 0
    ELSE IF dst.state.to_buildplate
    THEN (IF getRadius(src.state) < getRadius(dst.state)
          THEN src.state.increased_to_model_radius + getRadius(dst.state) - getRadius(src.state) ELSE 0)
    ELSE (IF getRadius(src.state) > getRadius(dst.state)
          THEN dst.state.increased_to_model_radius + getRadius(src.state) - getRadius(dst.state) ELSE 0)

\* A fault of the final assignments: the parents of src are not appended.
merge_two_elements_assign_parents_lost(dst, src, merging_to_bp, new_state, intersect, influence_areas, to_model_areas) ==
    [ merged |-> TRUE,
      dst |-> [ state |-> new_state,
                parents |-> dst.parents,
                areas |-> [ influence_areas |-> influence_areas,
                            to_bp_areas |-> IF merging_to_bp THEN intersect ELSE {},
                            to_model_areas |->
                                IF ~merging_to_bp THEN intersect
                                ELSE IF ~config.support_rests_on_model THEN {}
                                ELSE IF new_state.to_model_gracious THEN to_model_areas \cup intersect
                                ELSE influence_areas ] ],
      src |-> [ src EXCEPT !.areas = EmptyAreas, !.parents = << >> ] ]

\* The assignments to dst and src that end merge_influence_areas_two_elements.
merge_two_elements_assign(dst, src, merging_to_bp, new_state, intersect, influence_areas, to_model_areas) ==
    [ merged |-> TRUE,
      dst |-> [ state |-> new_state,
                parents |-> dst.parents \o src.parents,
                areas |-> [ influence_areas |-> influence_areas,
                            to_bp_areas |-> IF merging_to_bp THEN intersect ELSE {},
                            to_model_areas |->
                                IF ~merging_to_bp THEN intersect
                                ELSE IF ~config.support_rests_on_model THEN {}
                                ELSE IF new_state.to_model_gracious THEN to_model_areas \cup intersect
                                ELSE influence_areas ] ],
      src |-> [ src EXCEPT !.areas = EmptyAreas, !.parents = << >> ] ]

\* merge_influence_areas_two_elements from the test of `intersect' on.  The
\* erosion by 0.025 mm is below one lattice step.
merge_two_elements_intersect(lidx, dst, src, smaller_rad, bigger_rad, intersect) ==
    IF ~HasArea(intersect) THEN [ merged |-> FALSE, dst |-> dst, src |-> src ]
    ELSE merge_two_elements_assign(dst, src,
            dst.state.to_buildplate /\ src.state.to_buildplate,
            [ merge_support_element_states(dst.state, src.state,
                    move_inside_if_outside(intersect, dst.state.next_position), lidx - 1)
              EXCEPT !.increased_to_model_radius =
                    IF merge_increased_to_model_radius(dst, src) = 0
                    THEN Max(dst.state.increased_to_model_radius, src.state.increased_to_model_radius)
                    ELSE merge_increased_to_model_radius(dst, src) ],
            intersect,
            intersect_small_with_bigger(lidx, smaller_rad, bigger_rad,
                smaller_rad.areas.influence_areas, bigger_rad.areas.influence_areas) \cup intersect,
            intersect_small_with_bigger(lidx, smaller_rad, bigger_rad,
                smaller_rad.areas.to_model_areas, bigger_rad.areas.to_model_areas))

\* A fault of the test of min_dtt_to_model: it is left out.
merge_before_min_dtt_to_model_ignored(dst, src) == FALSE

\* "would merge to model before it is known they will even been drawn": the
\* test of min_dtt_to_model inside `if (! merging_to_bp)'.
merge_before_min_dtt_to_model(dst, src) ==
    /\ ~(dst.state.to_buildplate /\ src.state.to_buildplate)
    /\ ~dst.state.supports_roof /\ ~src.state.supports_roof
    /\ Max(src.state.distance_to_top, dst.state.distance_to_top) < config.min_dtt_to_model

\* merge_influence_areas_two_elements once smaller_rad and bigger_rad are
\* bound.
merge_two_elements_radii(lidx, dst, src, smaller_rad, bigger_rad) ==
    IF \/ ~bbox_intersects(bbox_cells(smaller_rad.areas),
                           Abs(getRadius(bigger_rad.state) - getRadius(smaller_rad.state)),
                           bbox_cells(bigger_rad.areas))
       \/ merge_increased_to_model_radius(dst, src) > config.max_to_model_radius_increase
       \/ merge_before_min_dtt_to_model(dst, src)
       \/ ~bigger_rad.state.can_use_safe_radius /\ smaller_rad.state.can_use_safe_radius
    THEN [ merged |-> FALSE, dst |-> dst, src |-> src ]
    ELSE merge_two_elements_intersect(lidx, dst, src, smaller_rad, bigger_rad,
            IF dst.state.to_buildplate /\ src.state.to_buildplate
            THEN intersect_small_with_bigger(lidx, smaller_rad, bigger_rad,
                    smaller_rad.areas.to_bp_areas, bigger_rad.areas.to_bp_areas)
            ELSE intersect_small_with_bigger(lidx, smaller_rad, bigger_rad,
                    smaller_rad.areas.to_model_areas, bigger_rad.areas.to_model_areas))

\* merge_influence_areas_two_elements(dst, src): whether the pair is merged,
\* and dst and src afterwards.
merge_influence_areas_two_elements(lidx, dst, src) ==
    IF \/ dst.state.to_model_gracious # src.state.to_model_gracious
       \/ dst.state.use_min_xy_dist # src.state.use_min_xy_dist
    THEN [ merged |-> FALSE, dst |-> dst, src |-> src ]
    ELSE IF getCollisionRadius(dst.state) > getCollisionRadius(src.state)
    THEN merge_two_elements_radii(lidx, dst, src, src, dst)
    ELSE merge_two_elements_radii(lidx, dst, src, dst, src)

\* A SupportElementMerging after it was the source of a std::move: the
\* state is copied, the parents and the areas are left empty.
moved_from(elem) == [ elem EXCEPT !.areas = EmptyAreas, !.parents = << >> ]

\* An assignment that copies: the source keeps its parents and its areas.
move_assign_copied(vec, to, from) == [ vec EXCEPT ![to + 1] = vec[from + 1] ]

\* vec with the element at the 0-based position `to' move-assigned from the
\* 0-based position `from'.
move_assign(vec, to, from) ==
    [ vec EXCEPT ![to + 1] = vec[from + 1], ![from + 1] = moved_from(vec[from + 1]) ]

\* vec after the pair (to, from) of 0-based positions was merged with the
\* outcome m, and the last element of the range ending at dst_end was moved
\* into the position `from'.
merge_and_fill(vec, m, to, from, dst_end) ==
    IF from # dst_end - 1
    THEN move_assign([ vec EXCEPT ![to + 1] = m.dst, ![from + 1] = m.src ], from, dst_end - 1)
    ELSE [ vec EXCEPT ![to + 1] = m.dst, ![from + 1] = m.src ]

\* merge_influence_areas_leaves on the range [i, dst_end) of vec, with the
\* inner loop at j: the vector and the new end of the range.
\* merge_leaves_pair is the body of the inner loop after the call of
\* merge_influence_areas_two_elements, m being its outcome.
RECURSIVE merge_influence_areas_leaves(_, _, _, _, _)
merge_leaves_pair(lidx, vec, i, j, dst_end, m) ==
    IF m.merged
    THEN merge_influence_areas_leaves(lidx, merge_and_fill(vec, m, i, j, dst_end), i, i + 1, dst_end - 1)
    ELSE merge_influence_areas_leaves(lidx, vec, i, j + 1, dst_end)

merge_influence_areas_leaves(lidx, vec, i, j, dst_end) ==
    IF i + 1 >= dst_end THEN [ vec |-> vec, dst_end |-> dst_end ]
    ELSE IF j = dst_end THEN merge_influence_areas_leaves(lidx, vec, i + 1, i + 2, dst_end)
    ELSE merge_leaves_pair(lidx, vec, i, j, dst_end,
            merge_influence_areas_two_elements(lidx, vec[i + 1], vec[j + 1]))

\* First inner loop of merge_influence_areas_two_sets: the first dst of
\* [dst, dst_end) that merges with src (dst_end when there is none).
RECURSIVE two_sets_find(_, _, _, _, _)
two_sets_find_pair(lidx, vec, dst, dst_end, src, m) ==
    IF m.merged
    THEN [ merged |-> dst, vec |-> [ vec EXCEPT ![dst + 1] = m.dst, ![src + 1] = m.src ] ]
    ELSE two_sets_find(lidx, vec, dst + 1, dst_end, src)

two_sets_find(lidx, vec, dst, dst_end, src) ==
    IF dst = dst_end THEN [ merged |-> dst_end, vec |-> vec ]
    ELSE two_sets_find_pair(lidx, vec, dst, dst_end, src,
            merge_influence_areas_two_elements(lidx, vec[dst + 1], vec[src + 1]))

\* Second inner loop: the remaining dst elements are merged into `merged'.
RECURSIVE two_sets_absorb(_, _, _, _, _)
two_sets_absorb_pair(lidx, vec, merged, dst, dst_end, m) ==
    IF m.merged
    THEN two_sets_absorb(lidx, merge_and_fill(vec, m, merged, dst, dst_end), merged, dst, dst_end - 1)
    ELSE two_sets_absorb(lidx, vec, merged, dst + 1, dst_end)

two_sets_absorb(lidx, vec, merged, dst, dst_end) ==
    IF dst = dst_end THEN [ vec |-> vec, dst_end |-> dst_end ]
    ELSE two_sets_absorb_pair(lidx, vec, merged, dst, dst_end,
            merge_influence_areas_two_elements(lidx, vec[merged + 1], vec[dst + 1]))

\* The tail of merge_influence_areas_two_sets: the src elements that were
\* not merged are moved to the end of dst.
RECURSIVE two_sets_compactify(_, _, _, _)
two_sets_compactify(vec, dst_end, src_begin, src_end) ==
    IF src_begin = src_end THEN [ vec |-> vec, dst_end |-> dst_end ]
    ELSE two_sets_compactify(move_assign(vec, dst_end, src_begin), dst_end + 1, src_begin + 1, src_end)

\* merge_influence_areas_two_sets, with the outer loop at src.
\* two_sets_found is the body of the outer loop after the first inner loop
\* (f is what it left), two_sets_absorbed the rest of it after the second
\* inner loop (r is what it left).
RECURSIVE merge_influence_areas_two_sets(_, _, _, _, _, _, _)
two_sets_absorbed(lidx, dst_begin, src_begin, src, src_end, r) ==
    merge_influence_areas_two_sets(lidx, r.vec, dst_begin, r.dst_end, src_begin + 1, src + 1, src_end)

two_sets_found(lidx, vec, dst_begin, dst_end, src_begin, src, src_end, f) ==
    IF f.merged = dst_end
    THEN merge_influence_areas_two_sets(lidx, vec, dst_begin, dst_end, src_begin, src + 1, src_end)
    ELSE two_sets_absorbed(lidx, dst_begin, src_begin, src, src_end,
            two_sets_absorb(lidx,
                IF src # src_begin THEN move_assign(f.vec, src, src_begin) ELSE f.vec,
                f.merged, f.merged + 1, dst_end))

merge_influence_areas_two_sets(lidx, vec, dst_begin, dst_end, src_begin, src, src_end) ==
    IF src = src_end
    THEN IF dst_end = src_begin THEN [ vec |-> vec, dst_end |-> src_end ]
         ELSE two_sets_compactify(vec, dst_end, src_begin, src_end)
    ELSE two_sets_found(lidx, vec, dst_begin, dst_end, src_begin, src, src_end,
            two_sets_find(lidx, vec, dst_begin, dst_end, src))

\* Twice the centroid of the bounding box of a merging element.
centroid2(elem) ==
    LET c == bbox_cells(elem.areas)
    IN  IF c = {} THEN 0
        ELSE (CHOOSE lo \in c : \A x \in c : lo <= x) + (CHOOSE hi \in c : \A x \in c : x <= hi)

\* AABBTreeIndirect::Tree::build_modify_input: the input is reordered so that
\* the leaves of the tree are contiguous; on a line that is the order of the
\* centroids (elements of equal centroid keep their order).
RECURSIVE build_modify_input(_)
build_modify_input(vec) ==
    IF Len(vec) <= 1 THEN vec
    ELSE LET sorted == build_modify_input(SubSeq(vec, 1, Len(vec) - 1))
             last == vec[Len(vec)]
             before == Cardinality({ i \in 1 .. Len(sorted) : centroid2(sorted[i]) <= centroid2(last) })
         IN  SubSeq(sorted, 1, before) \o << last >> \o SubSeq(sorted, before + 1, Len(sorted))

\* Initial buckets whose single trailing bucket begins inside the bucket
\* before it.
initial_buckets_overlapping(input_size) ==
    LET num_buckets_min == (input_size + 2) \div 4
        num_buckets_max == input_size \div 2
        many == num_buckets_min >= config.num_threads
        num_buckets_initial == IF many THEN num_buckets_min ELSE num_buckets_max
        bucket_size == IF many THEN 4 ELSE 2
        filled == [ i \in 1 .. num_buckets_initial |->
                      [ first |-> (i - 1) * bucket_size, second |-> i * bucket_size ] ]
        it == num_buckets_initial * bucket_size
    IN  [ num_buckets_initial |-> num_buckets_initial,
          buckets |-> IF filled[num_buckets_initial].second >= input_size
                      THEN [ filled EXCEPT ![num_buckets_initial].second = Min(@, input_size) ]
                      ELSE Append(filled, [ first |-> it - 1, second |-> input_size ]) ]

\* The initial buckets of merge_influence_areas for input_size elements, as
\* ranges [first, second) of 0-based positions, and the number of buckets
\* merged in the first iteration.
initial_buckets(input_size) ==
    LET num_buckets_min == (input_size + 2) \div 4
        num_buckets_max == input_size \div 2
        many == num_buckets_min >= config.num_threads
        num_buckets_initial == IF many THEN num_buckets_min ELSE num_buckets_max
        bucket_size == IF many THEN 4 ELSE 2
        filled == [ i \in 1 .. num_buckets_initial |->
                      [ first |-> (i - 1) * bucket_size, second |-> i * bucket_size ] ]
        it == num_buckets_initial * bucket_size
    IN  [ num_buckets_initial |-> num_buckets_initial,
          buckets |-> IF filled[num_buckets_initial].second >= input_size
                      THEN [ filled EXCEPT ![num_buckets_initial].second = Min(@, input_size) ]
                      ELSE Append(filled, [ first |-> it, second |-> input_size ]) ]

\* 1st merge iteration: merge_influence_areas_leaves on the buckets idx ..
\* num_buckets_initial - 1 (0-based).  merge_leaves_bucket stores what the
\* call for the bucket idx left (r).
RECURSIVE merge_leaves_round(_, _, _, _, _)
merge_leaves_bucket(lidx, buckets, idx, num_buckets_initial, r) ==
    merge_leaves_round(lidx, r.vec, [ buckets EXCEPT ![idx + 1].second = r.dst_end ],
                       idx + 1, num_buckets_initial)

merge_leaves_round(lidx, vec, buckets, idx, num_buckets_initial) ==
    IF idx >= num_buckets_initial THEN [ vec |-> vec, buckets |-> buckets ]
    ELSE merge_leaves_bucket(lidx, buckets, idx, num_buckets_initial,
            merge_influence_areas_leaves(lidx, vec, buckets[idx + 1].first,
                                         buckets[idx + 1].first + 1, buckets[idx + 1].second))

\* One further merge iteration: the odd buckets are merged into the even ones.
\* merge_pairs_bucket stores what the call for the pair idx left (r).
RECURSIVE merge_pairs_round(_, _, _, _)
merge_pairs_bucket(lidx, buckets, idx, r) ==
    merge_pairs_round(lidx, r.vec, [ buckets EXCEPT ![2 * idx + 1].second = r.dst_end ], idx + 1)

merge_pairs_round(lidx, vec, buckets, idx) ==
    IF idx >= Len(buckets) \div 2 THEN [ vec |-> vec, buckets |-> buckets ]
    ELSE merge_pairs_bucket(lidx, buckets, idx,
            merge_influence_areas_two_sets(lidx, vec,
                buckets[2 * idx + 1].first, buckets[2 * idx + 1].second,
                buckets[2 * idx + 2].first, buckets[2 * idx + 2].first, buckets[2 * idx + 2].second))

\* The while loop of merge_influence_areas.  merge_fold_buckets drops the
\* odd buckets after an iteration (r is what the iteration left).
RECURSIVE merge_fold(_, _, _)
merge_fold_buckets(lidx, r) ==
    merge_fold(lidx, r.vec, [ i \in 1 .. (Len(r.buckets) + 1) \div 2 |-> r.buckets[2 * i - 1] ])

merge_fold(lidx, vec, buckets) ==
    IF Len(buckets) <= 1 THEN [ vec |-> vec, buckets |-> buckets ]
    ELSE merge_fold_buckets(lidx, merge_pairs_round(lidx, vec, buckets, 0))

\* merge_influence_areas from the first merge iteration on, for the input
\* reordered by the tree (sorted) and its initial buckets (ib);
\* merge_leaves_done is the while loop run on what the first iteration left.
merge_leaves_done(lidx, leaves) == merge_fold(lidx, leaves.vec, leaves.buckets).vec

merge_sorted(lidx, sorted, ib) ==
    merge_leaves_done(lidx, merge_leaves_round(lidx, sorted, ib.buckets, 0, ib.num_buckets_initial))

\* merge_influence_areas on a vector of at least two elements (the only use
\* of it): the vector afterwards.  It keeps its size; the elements that were
\* merged away or moved from are left with empty areas.
merge_influence_areas(lidx, influence_areas) ==
    merge_sorted(lidx, build_modify_input(influence_areas), initial_buckets(Len(influence_areas)))

----------------------------------------------------------------------------
(* create_layer_pathing.                                                   *)

\* max_merge_every_x_layers, computed in scaled units (5 per lattice step).
max_merge_every_x_layers ==
    Min(Min(5000 \div Max(5 * config.maximum_move_distance, 100),
            1000 \div Max(5 * config.maximum_move_distance_slow, 20)),
        3000 \div config.layer_height)

\* A fault of the emplacement: the parents are taken from a vector that was
\* moved from.
to_support_element_moved_parents(elem) ==
    [ state |-> elem.state, parents |-> << >>, influence_area |-> elem.areas.influence_areas ]

\* The SupportElement emplaced into the output for a merging element.
to_support_element(elem) ==
    [ state |-> elem.state, parents |-> elem.parents, influence_area |-> elem.areas.influence_areas ]

\* The SupportElements emplaced for the merging elements of vec.
to_support_elements(vec) == [ i \in 1 .. Len(vec) |-> to_support_element(vec[i]) ]

\* The merging elements of vec that the remove_if of create_layer_pathing
\* moves to the output (bypass = TRUE) or keeps for the merge (bypass = FALSE).
RECURSIVE select_areas(_, _)
select_areas(vec, bypass) ==
    IF vec = << >> THEN << >>
    ELSE LET e == Head(vec)
             is_bypass == e.areas.to_bp_areas = {} /\ e.areas.to_model_areas = {}
         IN  (IF e.areas.influence_areas # {} /\ is_bypass = bypass THEN << e >> ELSE << >>)
             \o select_areas(Tail(vec), bypass)

\* The save loop: the elements of non-empty influence area, as SupportElements.
RECURSIVE save_areas(_)
save_areas(vec) ==
    IF vec = << >> THEN << >>
    ELSE (IF Head(vec).areas.influence_areas # {} THEN << to_support_element(Head(vec)) >> ELSE << >>)
         \o save_areas(Tail(vec))

\* One iteration of the layer loop of create_layer_pathing at layer lidx,
\* whose layer is not empty: the new values of the two layers it writes and
\* of the three locals it carries to the next iteration.
\* pathing_merged is the end of the iteration: bypassed are the areas moved to
\* the output before the merge, merged is the vector the merge left of the
\* count_before_merge areas it was given.
pathing_merged(lidx, prev_layer, this_layer, interval, last_merge, had_new_element, merge_this_layer, count_before_merge, merged) ==
    [ prev_layer |-> prev_layer,
      this_layer |-> this_layer \o save_areas(merged),
      new_element |-> this_layer # << >>,
      last_merge_layer_idx |-> IF merge_this_layer THEN lidx ELSE last_merge,
      merge_every_x_layers |->
          IF /\ merge_this_layer
             /\ ~(count_before_merge > 1 /\ count_before_merge > Len(merged))
             /\ ~had_new_element
          THEN Min(max_merge_every_x_layers, (IF had_new_element THEN 1 ELSE interval) + 1)
          ELSE (IF had_new_element THEN 1 ELSE interval),
      merge_this_layer |-> merge_this_layer,
      reduced_by_merging |->
          merge_this_layer /\ count_before_merge > 1 /\ count_before_merge > Len(merged),
      merged_some |-> \E i \in 1 .. Len(merged) : Len(merged[i].parents) > 1 ]

\* The iteration from the remove_if on: influence_areas are the areas kept
\* for the merge.
pathing_selected(lidx, prev_layer, this_layer, interval, last_merge, had_new_element, merge_this_layer, influence_areas) ==
    pathing_merged(lidx, prev_layer, this_layer, interval, last_merge, had_new_element,
        merge_this_layer, Len(influence_areas),
        IF merge_this_layer /\ Len(influence_areas) > 1
        THEN merge_influence_areas(lidx, influence_areas)
        ELSE influence_areas)

\* The iteration after increase_areas_one_layer, inc being what it left.
pathing_increased(lidx, prev_layer, this_layer0, interval, last_merge, had_new_element, merge_this_layer, inc) ==
    pathing_selected(lidx,
        [ i \in 1 .. Len(prev_layer) |->
            IF inc[i].add THEN prev_layer[i]
            ELSE [ prev_layer[i] EXCEPT !.state.result_on_layer = NoPoint ] ],
        this_layer0 \o to_support_elements(
            select_areas([ i \in 1 .. Len(prev_layer) |-> inc[i].merging_area ], TRUE)),
        interval, last_merge, had_new_element, merge_this_layer,
        select_areas([ i \in 1 .. Len(prev_layer) |-> inc[i].merging_area ], FALSE))

create_layer_pathing_step(lidx, prev_layer, this_layer0, interval, last_merge, had_new_element) ==
    pathing_increased(lidx, prev_layer, this_layer0, interval, last_merge, had_new_element,
        had_new_element \/ (last_merge - lidx) >= interval,
        increase_areas_one_layer(lidx, prev_layer, had_new_element \/ (last_merge - lidx) >= interval))

----------------------------------------------------------------------------
(* The node resolver: create_nodes_from_area and its helpers.  mb is a     *)
(* value of move_bounds; elements are addressed by layer and 0-based index.*)

result_on_layer_is_set(state) == state.result_on_layer # NoPoint

\* The layers of mb (0 .. size - 1).
layers_of(mb) == DOMAIN mb
has_layer(mb, l) == l \in DOMAIN mb

\* A set_points_on_areas that leaves the parents without a position.
set_points_on_areas_unpropagated(mb, lidx, idx, k) == mb

\* set_points_on_areas for the element idx of layer lidx, with the loop over
\* its parents at position k of the parents list.
RECURSIVE set_points_on_areas(_, _, _, _)
set_points_on_areas(mb, lidx, idx, k) ==
    LET elem == mb[lidx][idx + 1]
    IN  IF ~result_on_layer_is_set(elem.state) \/ ~has_layer(mb, lidx + 1) \/ k > Len(elem.parents)
        THEN mb
        ELSE LET p == elem.parents[k] + 1
                 next_elem == mb[lidx + 1][p]
                 placed == IF result_on_layer_is_set(next_elem.state) THEN next_elem.state.result_on_layer
                           ELSE move_inside_if_outside(next_elem.influence_area, elem.state.result_on_layer)
             IN  set_points_on_areas(
                    [ mb EXCEPT ![lidx + 1][p].state.result_on_layer = placed,
                                ![lidx + 1][p].state.marked = TRUE ],
                    lidx, idx, k + 1)

\* set_to_model_contact_simple
set_to_model_contact_simple(mb, lidx, idx) ==
    [ mb EXCEPT ![lidx][idx + 1].state.result_on_layer =
        move_inside_if_outside(mb[lidx][idx + 1].influence_area, mb[lidx][idx + 1].state.next_position) ]

\* The upward walk of set_to_model_contact_to_model_gracious from the element
\* idx of layer layer_check: the last element whose influence area meets the
\* placeable area (last = << layer, index >>, << >> for none so far).
RECURSIVE last_successfull_layer(_, _, _, _)
last_successfull_layer(mb, layer_check, idx, last) ==
    LET elem == mb[layer_check][idx + 1]
    IN  IF elem.influence_area \cap getPlaceableAreas(getCollisionRadius(elem.state), layer_check) = {}
        THEN last
        ELSE IF Len(elem.parents) # 1 THEN << layer_check, idx >>
        ELSE last_successfull_layer(mb, layer_check + 1, elem.parents[1], << layer_check, idx >>)

\* The deletion loop of set_to_model_contact_to_model_gracious: the elements
\* from (lidx, idx) up to, and without, the element `last' are flagged.
RECURSIVE delete_below(_, _, _, _)
delete_below(mb, lidx, idx, last) ==
    IF << lidx, idx >> = last THEN mb
    ELSE delete_below([ mb EXCEPT ![lidx][idx + 1].state.deleted = TRUE ],
                      lidx + 1, mb[lidx][idx + 1].parents[1], last)

\* set_to_model_contact_to_model_gracious
set_to_model_contact_to_model_gracious(mb, lidx, idx) ==
    LET last == last_successfull_layer(mb, lidx, idx, << >>)
    IN  IF last = << >>
        THEN set_to_model_contact_simple(
                [ mb EXCEPT ![lidx][idx + 1].state.to_model_gracious = FALSE ], lidx, idx)
        ELSE set_to_model_contact_simple(delete_below(mb, lidx, idx, last), last[1], last[2])

\* reset of the result_on_layer of every parent of a deleted element
RECURSIVE reset_parents(_, _, _, _)
reset_parents(mb, lidx, idx, k) ==
    IF k > Len(mb[lidx][idx + 1].parents) THEN mb
    ELSE reset_parents(
            [ mb EXCEPT ![lidx + 1][mb[lidx][idx + 1].parents[k] + 1].state.result_on_layer = NoPoint ],
            lidx, idx, k + 1)

\* marked = false for every element of the layer l (nothing when the layer
\* does not exist).
clear_marks(mb, l) ==
    IF ~has_layer(mb, l) THEN mb
    ELSE [ mb EXCEPT ![l] = [ i \in 1 .. Len(mb[l]) |-> [ mb[l][i] EXCEPT !.state.marked = FALSE ] ] ]

\* A fault of the per-element loop: an element without a position is given
\* one inside its influence area, whatever it is.
create_nodes_visit_contact(mb, lidx, idx) ==
    LET mb1 == IF result_on_layer_is_set(mb[lidx][idx + 1].state) THEN mb
               ELSE set_to_model_contact_simple(mb, lidx, idx)
    IN  set_points_on_areas(mb1, lidx, idx, 1)

\* The body of the per-element loop of create_nodes_from_area (layer >= 1).
create_nodes_visit(mb, lidx, idx) ==
    LET elem == mb[lidx][idx + 1]
        mb1 == IF result_on_layer_is_set(elem.state) THEN mb
               ELSE IF \/ elem.state.to_buildplate
                       \/ (elem.state.distance_to_top < config.min_dtt_to_model /\ ~elem.state.supports_roof)
                    THEN [ mb EXCEPT ![lidx][idx + 1].state.deleted = TRUE ]
               ELSE IF elem.state.to_model_gracious
                    THEN set_to_model_contact_to_model_gracious(mb, lidx, idx)
               ELSE set_to_model_contact_simple(mb, lidx, idx)
        e1 == mb1[lidx][idx + 1].state
        mb2 == IF ~e1.deleted /\ ~e1.marked /\ e1.target_height = lidx
               THEN [ mb1 EXCEPT ![lidx][idx + 1].state.deleted = TRUE ]
               ELSE mb1
    IN  IF mb2[lidx][idx + 1].state.deleted
        THEN reset_parents(mb2, lidx, idx, 1)
        ELSE set_points_on_areas(mb2, lidx, idx, 1)

\* The per-element loop of a layer >= 1, from the element idx on.
RECURSIVE create_nodes_layer(_, _, _)
create_nodes_layer(mb, lidx, idx) ==
    IF idx >= Len(mb[lidx]) THEN mb
    ELSE create_nodes_layer(create_nodes_visit(mb, lidx, idx), lidx, idx + 1)

\* The initialisation of layer 0, from the element idx on.
RECURSIVE create_nodes_init(_, _)
create_nodes_init(mb, idx) ==
    IF idx >= Len(mb[0]) THEN mb
    ELSE create_nodes_init(set_points_on_areas(set_to_model_contact_simple(mb, 0, idx), 0, idx, 1), idx + 1)

----------------------------------------------------------------------------
(* remove_deleted_elements.                                                *)

\* The inner while loop: the deleted elements at the back of the layer are
\* popped and marked in the map, as long as the position i is inside.
RECURSIVE pop_deleted_back(_, _, _)
pop_deleted_back(layer, map_current, i) ==
    IF i < Len(layer) /\ layer[Len(layer)].state.deleted
    THEN pop_deleted_back(SubSeq(layer, 1, Len(layer) - 1),
                          [ map_current EXCEPT ![Len(layer)] = 0 - 1 ], i)
    ELSE [ layer |-> layer, map_current |-> map_current ]

\* A faulty variant of remove_deleted_layer, which forgets
\* `map_current[layer.size()] = i': the element moved into the gap keeps its
\* old index in the map.
RECURSIVE remove_deleted_layer_moved_unmapped(_, _, _, _)
remove_deleted_layer_moved_unmapped(layer, map_current, map_parents, i) ==
    IF i >= Len(layer) THEN [ layer |-> layer, map_current |-> map_current ]
    ELSE IF layer[i + 1].state.deleted
    THEN LET map0 == IF map_current = << >> THEN [ k \in 1 .. Len(layer) |-> k - 1 ] ELSE map_current
             popped == pop_deleted_back(layer, map0, i)
             size == Len(popped.layer)
         IN  IF i + 1 < size
             THEN remove_deleted_layer_moved_unmapped(
                     [ SubSeq(popped.layer, 1, size - 1) EXCEPT ![i + 1] = popped.layer[size] ],
                     [ popped.map_current EXCEPT ![i + 1] = 0 - 1 ],
                     map_parents, i)
             ELSE remove_deleted_layer_moved_unmapped(popped.layer, popped.map_current, map_parents, i)
    ELSE remove_deleted_layer_moved_unmapped(
            IF map_parents = << >> THEN layer
            ELSE [ layer EXCEPT ![i + 1].parents =
                      [ k \in 1 .. Len(@) |-> map_parents[@[k] + 1] ] ],
            map_current, map_parents, i + 1)

\* The loop over the elements of one layer, at position i (0-based).
RECURSIVE remove_deleted_layer(_, _, _, _)
remove_deleted_layer(layer, map_current, map_parents, i) ==
    IF i >= Len(layer) THEN [ layer |-> layer, map_current |-> map_current ]
    ELSE IF layer[i + 1].state.deleted
    THEN LET map0 == IF map_current = << >> THEN [ k \in 1 .. Len(layer) |-> k - 1 ] ELSE map_current
             popped == pop_deleted_back(layer, map0, i)
             size == Len(popped.layer)
         IN  IF i + 1 < size
             THEN remove_deleted_layer(
                     [ SubSeq(popped.layer, 1, size - 1) EXCEPT ![i + 1] = popped.layer[size] ],
                     [ popped.map_current EXCEPT ![i + 1] = 0 - 1, ![size] = i ],
                     map_parents, i)
             ELSE remove_deleted_layer(popped.layer, popped.map_current, map_parents, i)
    ELSE remove_deleted_layer(
            IF map_parents = << >> THEN layer
            ELSE [ layer EXCEPT ![i + 1].parents =
                      [ k \in 1 .. Len(@) |-> map_parents[@[k] + 1] ] ],
            map_current, map_parents, i + 1)

\* A faulty variant of remove_deleted_elements, which forgets
\* `std::swap(map_current, map_parents)': the parents are never renumbered.
RECURSIVE remove_deleted_elements_no_swap(_, _, _)
remove_deleted_elements_no_swap(mb, lidx, map_parents) ==
    IF lidx < 0 THEN mb
    ELSE remove_deleted_elements_no_swap(
            [ mb EXCEPT ![lidx] = remove_deleted_layer(mb[lidx], << >>, << >>, 0).layer ],
            lidx - 1, << >>)

\* remove_deleted_elements, with the layer loop at lidx (top down).
RECURSIVE remove_deleted_elements(_, _, _)
remove_deleted_elements(mb, lidx, map_parents) ==
    IF lidx < 0 THEN mb
    ELSE LET r == remove_deleted_layer(mb[lidx], << >>, map_parents, 0)
         IN  remove_deleted_elements([ mb EXCEPT ![lidx] = r.layer ], lidx - 1, r.map_current)

----------------------------------------------------------------------------
(* generate_overhangs and precalculate (support_material_auto, no support  *)
(* enforcers or blockers, bridges supported).                              *)

\* lower_layer_offset of a layer that is not enforced, in lattice steps.
lower_layer_offset == 1

\* The overhangs of the object layer layer_id >= 1.
generate_overhangs_layer(layer_id) ==
    IF lower_layer_offset = 0
    THEN object[layer_id] \ object[layer_id - 1]
    ELSE object[layer_id] \ Offset(object[layer_id - 1], lower_layer_offset)

\* generate_overhangs: out has layer_count entries, out[0] stays empty.
generate_overhangs ==
    [ layer_id \in DOMAIN object |-> IF layer_id = 0 THEN {} ELSE generate_overhangs_layer(layer_id) ]

\* A fault of precalculate: the number of layers of the object is returned
\* in place of the number of layers up to the last overhang.
precalculate_layer_count(ov) == Cardinality(DOMAIN ov) - 1

\* The loop of precalculate over the layers: the last layer >= layer_id with
\* overhangs, max_support_layer_id when there is none.
RECURSIVE max_support_layer(_, _, _)
max_support_layer(ov, layer_id, max_support_layer_id) ==
    IF layer_id \notin DOMAIN ov THEN max_support_layer_id
    ELSE max_support_layer(ov, layer_id + 1, IF ov[layer_id] # {} THEN layer_id ELSE max_support_layer_id)

\* precalculate: the number of support layers (z_distance_top_layers = 0).
precalculate(ov) == Max(max_support_layer(ov, 1, 0) - 0, 0)

----------------------------------------------------------------------------
(* generate_initial_areas (support_offset = 0, no extra outset,            *)
(* max_overhang_insert_lag = 0).                                           *)

\* union_ex: the connected parts of an area that has cells >= from, in
\* increasing order, each as the pair of its first and last cell.
RECURSIVE union_ex(_, _)
union_ex(S, from) ==
    IF \A x \in S : x < from THEN << >>
    ELSE LET first == CHOOSE x \in S : x >= from /\ \A y \in S : y >= from => x <= y
             last  == CHOOSE x \in first .. Width :
                         /\ \A y \in first .. x : y \in S
                         /\ (x + 1) \notin S
         IN  << << first, last >> >> \o union_ex(S, last + 1)

\* The cells of the support pattern (generate_support_infill_lines sampled by
\* ensure_maximum_distance_polyline): every second cell.
on_infill_line(x) == x % 2 = 1

\* min_support_points of a part (its outline is shorter than connect_length)
min_support_points == 1

\* The sample points of one part of the overhang, in increasing order: the
\* points of the pattern, or the ends of the outline of the part when the
\* pattern has at most min_support_points points in it.
RECURSIVE points_from(_, _)
points_from(first, last) ==
    IF first > last THEN << >>
    ELSE (IF on_infill_line(first) THEN << first >> ELSE << >>) \o points_from(first + 1, last)

sample_points(part) ==
    LET polylines == points_from(part[1], part[2])
    IN  IF Len(polylines) <= min_support_points
        THEN (IF part[1] = part[2] THEN << part[1] >> ELSE << part[1], part[2] >>)
        ELSE polylines

\* addLinesAsInfluenceAreas with roof_tip_layers = 0 (no force_tip_to_roof:
\* min_radius^2 * pi is below minimum_roof_area): every point that
\* convert_lines_to_internal keeps is offered to addPointAsInfluenceArea.
RECURSIVE addLinesAsInfluenceAreas(_, _, _, _, _)
addLinesAsInfluenceAreas(layer, points, lidx, supports_roof, dont_move_until) ==
    IF points = << >> THEN layer
    ELSE LET status == convert_lines_to_internal(Head(points), lidx)
         IN  addLinesAsInfluenceAreas(
                IF status = INVALID THEN layer
                ELSE addPointAsInfluenceArea(layer, Head(points), status, lidx,
                                             dont_move_until, supports_roof),
                Tail(points), lidx, supports_roof, dont_move_until)

\* roof_enabled of generate_initial_areas
roof_enabled == config.support_roof_layers # 0

\* The loop that looks for the roof layers below an overhang part: dtt_roof
\* when the loop is left.
RECURSIVE dtt_roof_of(_, _, _)
dtt_roof_of(overhang_outset, lidx, dtt_roof) ==
    IF dtt_roof < config.support_roof_layers /\ lidx - dtt_roof >= 1
    THEN LET forbidden_next ==
                 IF config.support_rests_on_model
                 THEN getCollision(getRadiusAt(0), lidx - (dtt_roof + 1), tip_min_xy_dist)
                 ELSE getAvoidance(getRadiusAt(0), lidx - (dtt_roof + 1), Fast, FALSE, tip_min_xy_dist)
             overhang_outset_next == overhang_outset \ forbidden_next
         IN  IF Cardinality(overhang_outset_next) < config.minimum_roof_area
             THEN dtt_roof
             ELSE dtt_roof_of(overhang_outset_next, lidx, dtt_roof + 1)
    ELSE dtt_roof

\* The loop over overhang_processing: the parts of overhang_roofs
\* (roof_allowed_for_this_part) or of overhang_regular.  dtt_roof is 0 for
\* every part (minimum_roof_area), so the tips are inserted on the layer lidx.
RECURSIVE add_overhang_parts(_, _, _, _)
add_overhang_parts(layer, parts, lidx, roof_allowed_for_this_part) ==
    IF parts = << >> THEN layer
    ELSE LET dtt_roof == IF roof_allowed_for_this_part
                         THEN dtt_roof_of(Head(parts)[1] .. Head(parts)[2], lidx, 0) ELSE 0
         IN  add_overhang_parts(
                addLinesAsInfluenceAreas(layer, sample_points(Head(parts)), lidx - dtt_roof,
                    dtt_roof > 0,
                    IF roof_enabled THEN config.support_roof_layers - dtt_roof ELSE 0),
                Tail(parts), lidx, roof_allowed_for_this_part)

\* The body of the parallel_for of generate_initial_areas for the layer lidx:
\* the tips of move_bounds[lidx].  With roof_enabled overhang_roofs takes the
\* whole overhang (minimum_support_area = 0: nothing is removed from it) and
\* overhang_regular is left empty.
generate_initial_areas_layer(layer, lidx) ==
    IF overhangs[lidx + 1] = {} THEN layer
    ELSE LET r0 == getRadiusAt(0)
             relevant_forbidden ==
                 IF config.support_rests_on_model
                 THEN getCollision(r0, lidx, tip_min_xy_dist)
                 ELSE getAvoidance(r0, lidx, Fast, FALSE, tip_min_xy_dist)
             overhang_regular ==
                 safe_offset_inc(overhangs[lidx + 1], 0, relevant_forbidden,
                                 (config.min_radius * 7) \div 4 + config.xy_min_distance, 0, 1)
             overhang_roofs ==
                 IF roof_enabled
                 THEN safe_offset_inc(overhangs[lidx + 1], 0, relevant_forbidden,
                                      config.min_radius * 2 + config.xy_min_distance, 0, 1)
                 ELSE {}
         IN  add_overhang_parts(
                add_overhang_parts(layer, union_ex(overhang_roofs, 0), lidx, TRUE),
                union_ex(overhang_regular \ overhang_roofs, 0), lidx, FALSE)

\* generate_initial_areas on the empty move_bounds of num_support_layers
\* layers: layers 1 .. layer_count - 2 are visited.
generate_initial_areas(num_support_layers) ==
    [ lidx \in 0 .. (num_support_layers - 1) |->
        IF lidx >= 1 /\ (lidx + 1) \in DOMAIN overhangs
        THEN generate_initial_areas_layer(<< >>, lidx)
        ELSE << >> ]

----------------------------------------------------------------------------
(* draw_areas: the DrawArea of every element (linear_data), the branch     *)
(* areas, their smoothing and the areas dropped below the branches that    *)
(* rest on the model.  polys is the polygons member of linear_data: layer  *)
(* -> sequence of cell sets, in the order of the elements of the layer.    *)

\* DrawArea::child_element == nullptr
NoChild == 0 - 1

\* DrawArea::child_element of the element idx of layer lidx, as the index of
\* the child in the layer below: the element of that layer which names idx
\* as a parent (map_downwards holds the link when the result_on_layer of the
\* parent is set).
child_element(mb, lidx, idx) ==
    IF lidx = 0 \/ ~result_on_layer_is_set(mb[lidx][idx + 1].state) THEN NoChild
    ELSE LET links == { j \in 1 .. Len(mb[lidx - 1]) :
                          \E k \in 1 .. Len(mb[lidx - 1][j].parents) : mb[lidx - 1][j].parents[k] = idx }
         IN  IF links = {} THEN NoChild
             ELSE (CHOOSE j \in links : \A o \in links : j <= o) - 1

\* movement_directions of generate_branch_areas: pairs of a movement and the
\* radius of the circle that is ovalised along it.
movement_directions(mb, lidx, idx, child) ==
    LET elem == mb[lidx][idx + 1]
        at == elem.state.result_on_layer
    IN  { << 0, getRadius(elem.state) >> }
        \cup (IF elem.state.skip_ovalisation THEN {}
              ELSE (IF child = NoChild THEN {}
                    ELSE { << mb[lidx - 1][child + 1].state.result_on_layer - at, getRadius(elem.state) >> })
                   \cup { << mb[lidx + 1][elem.parents[k] + 1].state.result_on_layer - at,
                             Max(getRadius(mb[lidx + 1][elem.parents[k] + 1].state), config.support_line_width) >> :
                            k \in 1 .. Len(elem.parents) })

\* The circle of radius `reach' around `at', ovalised to hold the position
\* at + movement as well.
ovalized_circle(at, movement, reach) ==
    { x \in Cells : Min(at, at + movement) - reach <= x /\ x <= Max(at, at + movement) + reach }

\* The lambda generateArea of generate_branch_areas (the offset by a quarter
\* of the line width is below one lattice step).
generateArea(at, directions, aoffset, collision) ==
    UNION { ovalized_circle(at, m[1], m[2] + aoffset) : m \in directions } \ collision

\* The parts of the nozzle path that hold the position `at'.
polygons_with_correct_center(polygons, at) ==
    { x \in polygons : \A y \in Min(x, at) .. Max(x, at) : y \in polygons }

\* The body of the loop of generate_branch_areas: DrawArea::polygons of the
\* element idx of layer lidx.
generate_branch_area(mb, lidx, idx, child) ==
    LET elem == mb[lidx][idx + 1]
        directions == movement_directions(mb, lidx, idx, child)
        parent_uses_min == /\ ~elem.state.skip_ovalisation
                           /\ \E k \in 1 .. Len(elem.parents) :
                                 mb[lidx + 1][elem.parents[k] + 1].state.use_min_xy_dist
        collision == getCollision(0, lidx, parent_uses_min \/ elem.state.use_min_xy_dist)
        polygons == generateArea(elem.state.result_on_layer, directions, 0, collision)
        fast_relative_movement == \E m \in directions : 4 * Abs(m[1]) > 3 * getRadius(elem.state)
    IN  IF /\ (fast_relative_movement
               \/ getRadius(elem.state) - getCollisionRadius(elem.state) > config.support_line_width)
           /\ Len(union_ex(polygons, 0)) > 1
           /\ Len(union_ex(generateArea(elem.state.result_on_layer, directions,
                                        config.support_line_width \div 2, collision), 0)) > 1
        THEN polygons_with_correct_center(
                generateArea(elem.state.result_on_layer, directions,
                             config.support_line_width \div 2, collision),
                elem.state.result_on_layer) \ collision
        ELSE polygons

\* generate_branch_areas
generate_branch_areas(mb) ==
    [ l \in DOMAIN mb |->
        [ i \in 1 .. Len(mb[l]) |-> generate_branch_area(mb, l, i - 1, child_element(mb, l, i - 1)) ] ]

\* max_radius_change_per_layer of smooth_branch_areas (the "+ 1" is below
\* one lattice step).
max_radius_change_per_layer == config.support_line_width \div 2

\* Has the parent a collision radius that is not its radius?
radius_lags(state) == getRadius(state) # getCollisionRadius(state)

\* "smooth upwards", the body of the loop for the element idx of layer lidx:
\* the polygons of its parents are trimmed.
smooth_upwards_element(mb, polys, lidx, idx) ==
    LET elem == mb[lidx][idx + 1]
        lagging == { k \in 1 .. Len(elem.parents) : radius_lags(mb[lidx + 1][elem.parents[k] + 1].state) }
        distance(k) == Abs(elem.state.result_on_layer - mb[lidx + 1][elem.parents[k] + 1].state.result_on_layer)
                       - (getRadius(elem.state) - getRadius(mb[lidx + 1][elem.parents[k] + 1].state))
        max_outer_wall_distance ==
            (IF \A k \in lagging : distance(k) <= 0 THEN 0
             ELSE CHOOSE d \in { distance(k) : k \in lagging } : \A k \in lagging : distance(k) <= d)
            + max_radius_change_per_layer
        max_allowed_area == Offset(polys[lidx][idx + 1], max_outer_wall_distance)
    IN  IF lagging = {} THEN polys
        ELSE [ polys EXCEPT ![lidx + 1] =
                 [ p \in 1 .. Len(@) |->
                     IF \E k \in lagging : elem.parents[k] = p - 1
                     THEN @[p] \cap max_allowed_area ELSE @[p] ] ]

\* "smooth upwards" from the element idx of layer lidx on.
RECURSIVE smooth_upwards(_, _, _, _)
smooth_upwards(mb, polys, lidx, idx) ==
    IF lidx >= Cardinality(DOMAIN mb) - 1 THEN polys
    ELSE IF idx >= Len(mb[lidx]) THEN smooth_upwards(mb, polys, lidx + 1, 0)
    ELSE smooth_upwards(mb, smooth_upwards_element(mb, polys, lidx, idx), lidx, idx + 1)

\* "smooth downwards", the body of the loop for the element idx of layer
\* lidx; drawn holds the polygons and the marked flags of the elements.
smooth_downwards_element(mb, drawn, lidx, idx) ==
    LET elem == mb[lidx][idx + 1]
        direction(k) == elem.state.result_on_layer - mb[lidx + 1][elem.parents[k] + 1].state.result_on_layer
        max_allowed_area ==
            UNION { { x \in Cells :
                        (x - direction(k)) \in Offset(drawn.polys[lidx + 1][elem.parents[k] + 1],
                                                      max_radius_change_per_layer) } :
                    k \in 1 .. Len(elem.parents) }
        do_something == \E k \in 1 .. Len(elem.parents) :
                            \/ drawn.marked[lidx + 1][elem.parents[k] + 1]
                            \/ radius_lags(mb[lidx + 1][elem.parents[k] + 1].state)
        result == max_allowed_area \cap drawn.polys[lidx][idx + 1]
    IN  IF do_something /\ Cardinality(result) < Cardinality(drawn.polys[lidx][idx + 1])
        THEN [ polys |-> [ drawn.polys EXCEPT ![lidx][idx + 1] = result ],
               marked |-> [ drawn.marked EXCEPT ![lidx][idx + 1] = TRUE ] ]
        ELSE drawn

\* "smooth downwards" from the element idx of layer lidx on.
RECURSIVE smooth_downwards(_, _, _, _)
smooth_downwards(mb, drawn, lidx, idx) ==
    IF lidx < 0 THEN drawn
    ELSE IF idx >= Len(mb[lidx]) THEN smooth_downwards(mb, drawn, lidx - 1, 0)
    ELSE smooth_downwards(mb, smooth_downwards_element(mb, drawn, lidx, idx), lidx, idx + 1)

\* smooth_branch_areas: the polygons afterwards.  The marked flags are those
\* create_nodes_from_area left, cleared on the top layer.
smooth_branch_areas(mb, polys) ==
    smooth_downwards(mb,
        [ polys |-> smooth_upwards(mb, polys, 0, 0),
          marked |-> [ l \in DOMAIN mb |->
                         [ i \in 1 .. Len(mb[l]) |->
                             l # Cardinality(DOMAIN mb) - 1 /\ mb[l][i].state.marked ] ] ],
        Cardinality(DOMAIN mb) - 2, 0).polys

\* The loop of drop_non_gracious_areas for one element: the pairs of a layer
\* and an area emplaced into dropped_down_areas[idx], rest_support and
\* layer_idx being the loop variables when the condition is evaluated.
RECURSIVE drop_down(_, _, _, _)
drop_down(polygons, layer_idx_first, rest_support, lidx) ==
    IF HasArea(rest_support) /\ lidx >= 0
    THEN LET rest == (IF lidx = layer_idx_first THEN polygons ELSE rest_support)
                     \ getCollision(0, lidx, FALSE)
         IN  << << lidx, rest >> >> \o drop_down(polygons, layer_idx_first, rest, lidx - 1)
    ELSE << >>

\* dropped_down_areas[idx] of drop_non_gracious_areas for one DrawArea;
\* rest_support is constructed empty.
dropped_down_areas(draw_element) ==
    IF ~draw_element.element.state.to_model_gracious /\ draw_element.child_element = NoChild
    THEN drop_down(draw_element.polygons, draw_element.element.state.layer_idx - 1, {},
                   draw_element.element.state.layer_idx - 1)
    ELSE << >>

\* drop_non_gracious_areas: what it appends to each layer of
\* support_layer_storage.
drop_non_gracious_areas(linear_data) ==
    [ l \in DOMAIN linear_data |->
        { x \in Cells :
            \E a \in DOMAIN linear_data :
               \E i \in 1 .. Len(linear_data[a]) :
                  \E k \in 1 .. Len(dropped_down_areas(linear_data[a][i])) :
                     /\ dropped_down_areas(linear_data[a][i])[k][1] = l
                     /\ x \in dropped_down_areas(linear_data[a][i])[k][2] } ]

\* linear_data when draw_areas has drawn and smoothed the branches.
linear_data_of(mb, polys) ==
    [ l \in DOMAIN mb |->
        [ i \in 1 .. Len(mb[l]) |->
            [ element |-> mb[l][i], child_element |-> child_element(mb, l, i - 1),
              polygons |-> polys[l][i] ] ] ]

\* support_layer_storage after the combining loop of draw_areas: what
\* drop_non_gracious_areas appended and the polygons of the layer.
support_layer_storage_of(linear_data, dropped) ==
    [ l \in DOMAIN linear_data |->
        dropped[l] \cup UNION { linear_data[l][i].polygons : i \in 1 .. Len(linear_data[l]) } ]

\* draw_areas up to the call of finalize_interface_and_support_areas:
\* support_layer_storage holds what drop_non_gracious_areas appended and
\* then the polygons of the elements of the layer.
draw_areas(mb, polys) ==
    [ support_layers |-> { l \in DOMAIN mb : mb[l] # << >> },
      linear_data |-> linear_data_of(mb, polys),
      dropped_down_areas |-> drop_non_gracious_areas(linear_data_of(mb, polys)),
      support_layer_storage |->
          support_layer_storage_of(linear_data_of(mb, polys),
                                   drop_non_gracious_areas(linear_data_of(mb, polys))),
      handed |-> FALSE ]

----------------------------------------------------------------------------
(* generate_support_areas for one group of meshes: the state machine.      *)

\* The widths of the levels of the left wall of an object.
WidthSet == { 0, 3, Width - 2 }
\* The heights of the pillar of an object.
PillarHeights == { 0, 2, NumLayers }

\* The heights of the thin columns of an object.
ColumnHeights == { 0, NumLayers - 2, NumLayers - 1 }

\* Sliced objects (layer_count = NumLayers + 1): a wall at the left border
\* of the lattice with up to three levels of different width (w[1] below
\* layer h[1], w[2] from h[1] to h[2] - 1, w[3] from h[2] up), a pillar of
\* two cells at the right border below layer rh, and possibly a cap over the
\* whole width on the top layer.
WallObjects ==
    { [ z \in ObjectLayers |->
          IF cap /\ z = NumLayers THEN Cells
          ELSE (0 .. ((IF z < h[1] THEN w[1] ELSE IF z < h[2] THEN w[2] ELSE w[3]) - 1))
               \cup (IF z < rh THEN { Width - 2, Width - 1 } ELSE {}) ] :
        h \in { hh \in ObjectLayers \X ObjectLayers : hh[1] <= hh[2] },
        w \in WidthSet \X WidthSet \X WidthSet,
        rh \in PillarHeights,
        cap \in BOOLEAN }

\* Sliced objects of thin features: a column one cell wide at cell 0 below
\* layer h[1], one at cell 2 below layer h[2], possibly an island one cell
\* wide at cell Width - 2 on layer NumLayers - 2, and possibly the cap.
ColumnObjects ==
    { [ z \in ObjectLayers |->
          IF cap /\ z = NumLayers THEN Cells
          ELSE (IF z < h[1] THEN { 0 } ELSE {})
               \cup (IF z < h[2] THEN { 2 } ELSE {})
               \cup (IF island /\ z = NumLayers - 2 THEN { Width - 2 } ELSE {}) ] :
        h \in ColumnHeights \X ColumnHeights,
        island \in BOOLEAN,
        cap \in BOOLEAN }

ObjectSet == WallObjects \cup ColumnObjects

\* move_bounds before its construction and after move_bounds.clear()
NoMoveBounds == [ l \in {} |-> << >> ]

\* Nothing produced: no support layer allocated, nothing handed over.
NoOutput ==
    [ support_layers |-> {}, linear_data |-> << >>, dropped_down_areas |-> << >>,
      support_layer_storage |-> << >>, handed |-> FALSE ]

\* The Merger has not been run on its own.
NoMerging == << >>

\* A fault of the poll: the predicate is not looked at.
throw_on_cancel_never(polls) == FALSE

\* throw_on_cancel(): the exception is thrown when the predicate holds at a
\* poll of the step.
throw_on_cancel(polls) == cancelled /\ polls

\* The cancellation exception leaves generate_support_areas: its locals
\* (move_bounds, the layer vectors) are destroyed.
Unwind ==
    /\ pc' = "cancelled"
    /\ move_bounds' = NoMoveBounds
    /\ output' = NoOutput
    /\ UNCHANGED << config, object, merging, layer_idx, merge_every_x_layers, last_merge_layer_idx,
                    new_element, overhangs, snapshot, cancelled >>

\* Does the step that is about to run reach a poll of throw_on_cancel?
step_polls ==
    CASE pc = "generate_overhangs" -> Cardinality(DOMAIN object) > 1
      [] pc = "precalculate" -> precalculate(overhangs) > 0
      [] pc = "generate_initial_areas" ->
            \E lidx \in 1 .. (NumLayers - 1) : overhangs[lidx + 1] # {}
      [] pc = "create_layer_pathing" -> move_bounds[layer_idx] # << >>
      [] pc \in { "create_nodes_from_area", "create_nodes_layer", "draw_areas" } -> TRUE
      [] OTHER -> FALSE

\* The run of the pipeline merges with two threads (tbb max_concurrency).
Init ==
    /\ config \in { c \in ConfigSet : c.num_threads = 2 }
    /\ object \in ObjectSet
    /\ move_bounds = NoMoveBounds
    /\ pc = "generate_overhangs"
    /\ layer_idx = 0
    /\ merge_every_x_layers = 1
    /\ last_merge_layer_idx = 0
    /\ new_element = FALSE
    /\ overhangs = [ l \in ObjectLayers |-> {} ]
    /\ snapshot = NoMoveBounds
    /\ cancelled = FALSE
    /\ output = NoOutput
    /\ merging = NoMerging

\* The cancellation predicate becomes true (it never becomes false again).
RequestCancel ==
    /\ ~cancelled
    /\ pc \notin { "finished", "cancelled" }
    /\ cancelled' = TRUE
    /\ UNCHANGED << config, object, merging, move_bounds, pc, layer_idx, merge_every_x_layers,
                    last_merge_layer_idx, new_element, overhangs, snapshot, output >>

GenerateOverhangs ==
    /\ pc = "generate_overhangs"
    /\ IF throw_on_cancel(step_polls) THEN Unwind
       ELSE /\ overhangs' = generate_overhangs
            /\ pc' = "precalculate"
            /\ UNCHANGED << config, object, merging, move_bounds, layer_idx, merge_every_x_layers,
                            last_merge_layer_idx, new_element, snapshot, cancelled, output >>

\* precalculate and the construction of move_bounds; the group is skipped
\* (continue) when there is no support layer.
Precalculate ==
    /\ pc = "precalculate"
    /\ IF throw_on_cancel(step_polls) THEN Unwind
       ELSE LET num_support_layers == precalculate(overhangs)
            IN  /\ IF num_support_layers = 0
                   THEN pc' = "finished" /\ move_bounds' = move_bounds
                   ELSE /\ pc' = "generate_initial_areas"
                        /\ move_bounds' = [ l \in 0 .. (num_support_layers - 1) |-> << >> ]
                /\ UNCHANGED << config, object, merging, layer_idx, merge_every_x_layers,
                                last_merge_layer_idx, new_element, overhangs, snapshot,
                                cancelled, output >>

\* generate_initial_areas, and the initialisation of the locals of
\* create_layer_pathing, whose loop runs for the layers size - 1 .. 1.
GenerateInitialAreas ==
    /\ pc = "generate_initial_areas"
    /\ IF throw_on_cancel(step_polls) THEN Unwind
       ELSE LET size == Cardinality(DOMAIN move_bounds)
            IN  /\ move_bounds' = generate_initial_areas(size)
                /\ pc' = IF size > 1 THEN "create_layer_pathing" ELSE "create_nodes_from_area"
                /\ layer_idx' = size - 1
                /\ last_merge_layer_idx' = size
                /\ new_element' = FALSE
                /\ merge_every_x_layers' = 1
                /\ UNCHANGED << config, object, merging, overhangs, snapshot, cancelled, output >>

\* One iteration of the layer loop of create_layer_pathing.
CreateLayerPathing ==
    /\ pc = "create_layer_pathing"
    /\ IF throw_on_cancel(step_polls) THEN Unwind
       ELSE /\ IF move_bounds[layer_idx] = << >>
               THEN UNCHANGED << move_bounds, last_merge_layer_idx, new_element, merge_every_x_layers >>
               ELSE \E r \in { create_layer_pathing_step(layer_idx, move_bounds[layer_idx],
                                  move_bounds[layer_idx - 1], merge_every_x_layers,
                                  last_merge_layer_idx, new_element) } :
                        /\ move_bounds' = [ move_bounds EXCEPT ![layer_idx] = r.prev_layer,
                                                               ![layer_idx - 1] = r.this_layer ]
                        /\ last_merge_layer_idx' = r.last_merge_layer_idx
                        /\ new_element' = r.new_element
                        /\ merge_every_x_layers' = r.merge_every_x_layers
            /\ layer_idx' = layer_idx - 1
            /\ pc' = IF layer_idx > 1 THEN "create_layer_pathing" ELSE "create_nodes_from_area"
            /\ UNCHANGED << config, object, merging, overhangs, snapshot, cancelled, output >>

\* The end of create_nodes_from_area after the last layer: snapshot keeps
\* the resolved elements, move_bounds the compacted ones.
resolved(mb, last_layer) ==
    /\ snapshot' = IF last_layer THEN mb ELSE snapshot
    /\ move_bounds' = IF last_layer
                      THEN remove_deleted_elements(mb, Cardinality(DOMAIN mb) - 1, << >>)
                      ELSE mb
    /\ pc' = IF last_layer THEN "draw_areas" ELSE "create_nodes_layer"

\* create_nodes_from_area: the initialisation of layer 0.
CreateNodesInit ==
    /\ pc = "create_nodes_from_area"
    /\ IF throw_on_cancel(step_polls) THEN Unwind
       ELSE /\ resolved(create_nodes_init(clear_marks(move_bounds, 1), 0),
                        Cardinality(DOMAIN move_bounds) = 1)
            /\ layer_idx' = 1
            /\ UNCHANGED << config, object, merging, merge_every_x_layers, last_merge_layer_idx,
                            new_element, overhangs, cancelled, output >>

\* create_nodes_from_area: one iteration of the layer loop.
CreateNodesLayer ==
    /\ pc = "create_nodes_layer"
    /\ IF throw_on_cancel(step_polls) THEN Unwind
       ELSE /\ resolved(create_nodes_layer(clear_marks(move_bounds, layer_idx + 1), layer_idx, 0),
                        layer_idx + 1 = Cardinality(DOMAIN move_bounds))
            /\ layer_idx' = layer_idx + 1
            /\ UNCHANGED << config, object, merging, merge_every_x_layers, last_merge_layer_idx,
                            new_element, overhangs, cancelled, output >>

\* draw_areas: the branches are drawn, smoothed and dropped down, a support
\* layer is allocated for every layer that has an element; then
\* move_bounds.clear().
DrawAreas ==
    /\ pc = "draw_areas"
    /\ IF throw_on_cancel(step_polls) THEN Unwind
       ELSE /\ output' = draw_areas(move_bounds,
                                    smooth_branch_areas(move_bounds, generate_branch_areas(move_bounds)))
            /\ move_bounds' = NoMoveBounds
            /\ pc' = "generate_support_toolpaths"
            /\ UNCHANGED << config, object, merging, layer_idx, merge_every_x_layers, last_merge_layer_idx,
                            new_element, overhangs, snapshot, cancelled >>

\* generate_raft_base, generate_support_layers, generate_support_toolpaths
GenerateSupportToolpaths ==
    /\ pc = "generate_support_toolpaths"
    /\ output' = [ output EXCEPT !.handed = TRUE ]
    /\ pc' = "finished"
    /\ UNCHANGED << config, object, merging, move_bounds, layer_idx, merge_every_x_layers,
                    last_merge_layer_idx, new_element, overhangs, snapshot, cancelled >>

Next ==
    \/ RequestCancel
    \/ GenerateOverhangs
    \/ Precalculate
    \/ GenerateInitialAreas
    \/ CreateLayerPathing
    \/ CreateNodesInit
    \/ CreateNodesLayer
    \/ DrawAreas
    \/ GenerateSupportToolpaths

Spec == Init /\ [][Next]_vars

----------------------------------------------------------------------------
(* The pipeline under the other print profiles: the regular xy distance    *)
(* above the minimum xy distance (the tips start with use_min_xy_dist),    *)
(* and a roof interface of two layers that is never large enough to be     *)
(* added (the tips start with dont_move_until = 2).                        *)

ProfileSet ==
    { [ BaseConfig EXCEPT !.support_rests_on_model = rest, !.num_threads = 2,
                          !.xy_distance = xy, !.support_roof_layers = roof ] :
        rest \in BOOLEAN, xy \in { 1, 2 }, roof \in { 0, 2 } }
    \ ConfigSet

\* The objects of the profiles: those without the pillar at the right border.
ProfileObjects == { o \in ObjectSet : (Width - 1) \notin o[0] }

InitProfiles ==
    /\ config \in ProfileSet
    /\ object \in ProfileObjects
    /\ move_bounds = NoMoveBounds
    /\ pc = "generate_overhangs"
    /\ layer_idx = 0
    /\ merge_every_x_layers = 1
    /\ last_merge_layer_idx = 0
    /\ new_element = FALSE
    /\ overhangs = [ l \in ObjectLayers |-> {} ]
    /\ snapshot = NoMoveBounds
    /\ cancelled = FALSE
    /\ output = NoOutput
    /\ merging = NoMerging

\* The run is not cancelled.
NextProfiles ==
    \/ GenerateOverhangs
    \/ Precalculate
    \/ GenerateInitialAreas
    \/ CreateLayerPathing
    \/ CreateNodesInit
    \/ CreateNodesLayer
    \/ DrawAreas
    \/ GenerateSupportToolpaths

SpecProfiles == InitProfiles /\ [][NextProfiles]_vars

----------------------------------------------------------------------------
(* The pipeline under a slow profile (maximum_move_distance 2, slow 1) on  *)
(* objects with a ledge: a branch that rests on the model can leave the    *)
(* build plate avoidance on a layer without a merge pass.                  *)

\* The profiles with short moves; supports may rest on the model.
LedgeConfigs ==
    { [ c EXCEPT !.maximum_move_distance = 2, !.maximum_move_distance_slow = 1 ] :
        c \in { cc \in ConfigSet : cc.num_threads = 2 /\ cc.support_rests_on_model } }

\* The widths of the base, the widths of the ledge, its heights, the layers
\* of the overhanging slab and its widths.
LedgeBaseWidths == 3 .. 6
LedgeWidths == 1 .. 4
LedgeHeights == 0 .. 2
SlabLayers == 3 .. 4
SlabWidths == 1 .. 2

\* Sliced objects: a base at the left border on layer 0, a ledge on the
\* layers 1 .. hb, and a slab that overhangs on layer ht.
LedgeObjects ==
    { [ z \in ObjectLayers |->
          (IF z = 0 THEN 0 .. (w - 1) ELSE {})
          \cup (IF z >= 1 /\ z <= hb THEN 0 .. (b - 1) ELSE {})
          \cup (IF z = ht THEN 0 .. (ow - 1) ELSE {}) ] :
        w \in LedgeBaseWidths, b \in LedgeWidths, hb \in LedgeHeights,
        ht \in SlabLayers, ow \in SlabWidths }

InitLedge ==
    /\ config \in LedgeConfigs
    /\ object \in LedgeObjects
    /\ move_bounds = NoMoveBounds
    /\ pc = "generate_overhangs"
    /\ layer_idx = 0
    /\ merge_every_x_layers = 1
    /\ last_merge_layer_idx = 0
    /\ new_element = FALSE
    /\ overhangs = [ l \in ObjectLayers |-> {} ]
    /\ snapshot = NoMoveBounds
    /\ cancelled = FALSE
    /\ output = NoOutput
    /\ merging = NoMerging

SpecLedge == InitLedge /\ [][NextProfiles]_vars

----------------------------------------------------------------------------
(* The pipeline on staircases: every layer of the object is a wall at the  *)
(* left border that is not wider than the layer below, under a cap on the  *)
(* top layer.  A branch that rests on the model passes the steps on its    *)
(* way down, so that its influence areas meet the placeable area of more   *)
(* than one layer.                                                         *)

\* The widths of the steps.
StepWidths == { 0, 2, 4, 6, Width }

StairObjects ==
    { [ z \in ObjectLayers |-> IF z = NumLayers THEN Cells ELSE 0 .. (w[z] - 1) ] :
        w \in { ww \in [ 0 .. (NumLayers - 1) -> StepWidths ] :
                  \A z \in 1 .. (NumLayers - 1) : ww[z] <= ww[z - 1] } }

InitStairs ==
    /\ config \in { c \in ConfigSet \cup LedgeConfigs : c.num_threads = 2 /\ c.support_rests_on_model }
    /\ object \in StairObjects
    /\ move_bounds = NoMoveBounds
    /\ pc = "generate_overhangs"
    /\ layer_idx = 0
    /\ merge_every_x_layers = 1
    /\ last_merge_layer_idx = 0
    /\ new_element = FALSE
    /\ overhangs = [ l \in ObjectLayers |-> {} ]
    /\ snapshot = NoMoveBounds
    /\ cancelled = FALSE
    /\ output = NoOutput
    /\ merging = NoMerging

SpecStairs == InitStairs /\ [][NextProfiles]_vars

----------------------------------------------------------------------------
(* remove_deleted_elements on its own: SpecCompact runs it on vectors of   *)
(* layers with every pattern of deleted flags in which no surviving        *)
(* element has a deleted parent.                                           *)

\* The number of layers and the largest size of a layer of these vectors.
CompactLayers == 3
CompactSize == 3

\* The elements are told apart by their target_position.
compact_element(lidx, position, deleted, parents) ==
    [ TipElement(position, TO_BP, 0, lidx, 0, FALSE, FALSE) EXCEPT
        !.state.deleted = deleted, !.parents = parents ]

\* The parent lists of at most max_parents indices of surviving elements of
\* parent_layer.
compact_parents(parent_layer, max_parents) ==
    LET alive == { i \in 0 .. (Len(parent_layer) - 1) : ~parent_layer[i + 1].state.deleted }
    IN  { << >> } \cup { << p >> : p \in alive }
        \cup (IF max_parents < 2 THEN {}
              ELSE { << pq[1], pq[2] >> : pq \in { x \in alive \X alive : x[1] # x[2] } })

\* The layers of at most max_size elements above which parent_layer lies.
compact_layers(lidx, parent_layer, max_size, max_parents) ==
    LET choices == { [ deleted |-> TRUE, parents |-> << >> ] }
                   \cup { [ deleted |-> FALSE, parents |-> ps ] :
                            ps \in compact_parents(parent_layer, max_parents) }
    IN  UNION { { [ i \in 1 .. n |-> compact_element(lidx, i - 1, c[i].deleted, c[i].parents) ] :
                    c \in [ 1 .. n -> choices ] } :
                n \in 0 .. max_size }

InitCompact ==
    /\ config = BaseConfig
    /\ object = [ z \in ObjectLayers |-> {} ]
    /\ pc = "remove_deleted_elements"
    /\ \E top \in compact_layers(CompactLayers - 1, << >>, CompactSize, 0) :
         \E mid \in compact_layers(CompactLayers - 2, top, CompactSize, 1) :
           \E bottom \in compact_layers(CompactLayers - 3, mid, CompactSize - 1, 2) :
             move_bounds = [ l \in 0 .. (CompactLayers - 1) |->
                               IF l = 0 THEN bottom ELSE IF l = 1 THEN mid ELSE top ]
    /\ layer_idx = 0
    /\ merge_every_x_layers = 1
    /\ last_merge_layer_idx = 0
    /\ new_element = FALSE
    /\ overhangs = [ l \in ObjectLayers |-> {} ]
    /\ snapshot = NoMoveBounds
    /\ cancelled = FALSE
    /\ output = NoOutput
    /\ merging = NoMerging

\* The call of remove_deleted_elements; snapshot keeps the vector it was given.
RemoveDeletedElements ==
    /\ pc = "remove_deleted_elements"
    /\ snapshot' = move_bounds
    /\ move_bounds' = remove_deleted_elements(move_bounds, Cardinality(DOMAIN move_bounds) - 1, << >>)
    /\ pc' = "compacted"
    /\ UNCHANGED << config, object, merging, layer_idx, merge_every_x_layers, last_merge_layer_idx,
                    new_element, overhangs, cancelled, output >>

NextCompact == RemoveDeletedElements

SpecCompact == InitCompact /\ [][NextCompact]_vars

----------------------------------------------------------------------------
(* The Merger on its own: SpecMerge runs the pipeline up to an iteration   *)
(* of create_layer_pathing that merges, and there merge_influence_areas,   *)
(* or merge_influence_areas_two_elements on two elements in both orders,   *)
(* on the areas that increase_areas_one_layer left for the merge.          *)

\* Does the iteration of create_layer_pathing that is about to run merge?
merge_this_layer ==
    /\ pc = "create_layer_pathing"
    /\ move_bounds[layer_idx] # << >>
    /\ (new_element \/ (last_merge_layer_idx - layer_idx) >= merge_every_x_layers)

\* An element that a merge did not clear.
has_influence_area(elem) == elem.areas.influence_areas # {}

\* merge_influence_areas as create_layer_pathing calls it (two areas at least).
merged_layer(lidx, influence_areas) ==
    IF Len(influence_areas) > 1
    THEN SelectSeq(merge_influence_areas(lidx, influence_areas), has_influence_area)
    ELSE influence_areas

\* The areas of the layer that create_layer_pathing keeps for the merge.
merge_layer_input(inc) ==
    select_areas([ i \in 1 .. Len(inc) |-> inc[i].merging_area ], FALSE)

InitMerge ==
    /\ config \in ConfigSet
    /\ object \in ObjectSet
    /\ move_bounds = NoMoveBounds
    /\ pc = "generate_overhangs"
    /\ layer_idx = 0
    /\ merge_every_x_layers = 1
    /\ last_merge_layer_idx = 0
    /\ new_element = FALSE
    /\ overhangs = [ l \in ObjectLayers |-> {} ]
    /\ snapshot = NoMoveBounds
    /\ cancelled = FALSE
    /\ output = NoOutput
    /\ merging = NoMerging

\* merge_influence_areas on the areas of the layer, and once more on the
\* elements it left.
MergeLayer ==
    /\ merge_this_layer
    /\ \E input \in { merge_layer_input(increase_areas_one_layer(layer_idx, move_bounds[layer_idx], TRUE)) } :
         /\ Len(input) > 1
         /\ \E remaining \in { merged_layer(layer_idx, input) } :
              merging' = [ layer_idx |-> layer_idx,
                           input     |-> input,
                           remaining |-> remaining,
                           again     |-> merged_layer(layer_idx, remaining) ]
    /\ pc' = "merged"
    /\ UNCHANGED << config, object, move_bounds, layer_idx, merge_every_x_layers,
                    last_merge_layer_idx, new_element, overhangs, snapshot, cancelled, output >>

\* merge_influence_areas_two_elements on two areas of the layer, as (dst, src)
\* and as (src, dst).
MergeTwoElements ==
    /\ merge_this_layer
    /\ \E input \in { merge_layer_input(increase_areas_one_layer(layer_idx, move_bounds[layer_idx], TRUE)) } :
         \E a \in 1 .. Len(input), b \in 1 .. Len(input) :
            /\ a # b
            /\ merging' = [ layer_idx |-> layer_idx,
                            first     |-> input[a],
                            second    |-> input[b],
                            first_second |-> merge_influence_areas_two_elements(layer_idx, input[a], input[b]),
                            second_first |-> merge_influence_areas_two_elements(layer_idx, input[b], input[a]) ]
    /\ pc' = "merged_two_elements"
    /\ UNCHANGED << config, object, move_bounds, layer_idx, merge_every_x_layers,
                    last_merge_layer_idx, new_element, overhangs, snapshot, cancelled, output >>

NextMerge ==
    \/ GenerateOverhangs
    \/ Precalculate
    \/ GenerateInitialAreas
    \/ CreateLayerPathing
    \/ MergeLayer
    \/ MergeTwoElements

SpecMerge == InitMerge /\ [][NextMerge]_vars

----------------------------------------------------------------------------
(* The pairwise merge near the tips: the profile in which a branch may     *)
(* rest on the model only from distance_to_top 3 on, so that the areas of  *)
(* the first merge layers are below min_dtt_to_model.                      *)

LateModelConfigs ==
    { [ c EXCEPT !.min_dtt_to_model = 3 ] : c \in { cc \in ConfigSet : cc.num_threads = 1 } }

InitLateModel ==
    /\ config \in LateModelConfigs
    /\ object \in ObjectSet
    /\ move_bounds = NoMoveBounds
    /\ pc = "generate_overhangs"
    /\ layer_idx = 0
    /\ merge_every_x_layers = 1
    /\ last_merge_layer_idx = 0
    /\ new_element = FALSE
    /\ overhangs = [ l \in ObjectLayers |-> {} ]
    /\ snapshot = NoMoveBounds
    /\ cancelled = FALSE
    /\ output = NoOutput
    /\ merging = NoMerging

NextLateModel ==
    \/ GenerateOverhangs
    \/ Precalculate
    \/ GenerateInitialAreas
    \/ CreateLayerPathing
    \/ MergeTwoElements

SpecLateModel == InitLateModel /\ [][NextLateModel]_vars

----------------------------------------------------------------------------
(* Sequences of pairwise merges on the areas of one layer: the areas of    *)
(* tips of different age (inserted one, two and three layers above) that   *)
(* go to the build plate or rest on the model, all free to move over the   *)
(* whole lattice, are merged pair by pair in any order.  The radius grows  *)
(* with every layer, so that an older branch is thicker than a younger.    *)

\* The number of areas of the layer, and their distances to the top.
PoolSize == 3
PoolAges == 1 .. 3

PoolConfigs ==
    { [ BaseConfig EXCEPT !.support_rests_on_model = TRUE,
                          !.branch_radius_increase_per_layer = 1,
                          !.max_to_model_radius_increase = inc ] : inc \in 1 .. 2 }

\* An object without collision on the layers of the pool.
EmptyObject == [ z \in ObjectLayers |-> {} ]

\* The SupportElementMerging that increase_areas_one_layer leaves on the
\* layer lidx - 1 for the tip number idx of the given status, dtt layers
\* below its insertion.
pool_area(idx, status, dtt, lidx) ==
    [ state |-> [ TipElement(idx, status, dtt, lidx - 1 + dtt, 0, FALSE, FALSE).state
                    EXCEPT !.layer_idx = lidx - 1, !.result_on_layer = NoPoint ],
      parents |-> << idx >>,
      areas |-> [ influence_areas |-> Cells,
                  to_bp_areas |-> IF status = TO_BP_SAFE THEN Cells ELSE {},
                  to_model_areas |-> Cells ] ]

\* The pool without its element number k.
pool_without(pool, k) == [ i \in 1 .. (Len(pool) - 1) |-> IF i < k THEN pool[i] ELSE pool[i + 1] ]

InitPool ==
    /\ config \in PoolConfigs
    /\ object = EmptyObject
    /\ move_bounds = NoMoveBounds
    /\ pc = "merge_influence_areas"
    /\ layer_idx = 2
    /\ merge_every_x_layers = 1
    /\ last_merge_layer_idx = 0
    /\ new_element = FALSE
    /\ overhangs = [ l \in ObjectLayers |-> {} ]
    /\ snapshot = NoMoveBounds
    /\ cancelled = FALSE
    /\ output = NoOutput
    /\ \E status \in [ 1 .. PoolSize -> { TO_BP_SAFE, TO_MODEL_GRACIOUS_SAFE } ],
          dtt \in [ 1 .. PoolSize -> PoolAges ] :
          merging = [ pool |-> [ i \in 1 .. PoolSize |-> pool_area(i - 1, status[i], dtt[i], 2) ],
                      pairs |-> << >> ]

\* merge_influence_areas_two_elements on two areas of the pool; a merged
\* pair leaves dst in the pool, the emptied src is erased.
MergePair ==
    /\ pc = "merge_influence_areas"
    /\ \E a \in 1 .. Len(merging.pool), b \in 1 .. Len(merging.pool) :
          /\ a # b
          /\ \E m \in { merge_influence_areas_two_elements(layer_idx, merging.pool[a], merging.pool[b]) } :
                merging' = [ pool |-> IF m.merged
                                      THEN pool_without([ merging.pool EXCEPT ![a] = m.dst ], b)
                                      ELSE merging.pool,
                             pairs |-> << [ dst |-> merging.pool[a], src |-> merging.pool[b],
                                            result |-> m ] >> ]
    /\ UNCHANGED << config, object, move_bounds, pc, layer_idx, merge_every_x_layers,
                    last_merge_layer_idx, new_element, overhangs, snapshot, cancelled, output >>

NextPool == MergePair

SpecPool == InitPool /\ [][NextPool]_vars

----------------------------------------------------------------------------
(* drop_non_gracious_areas on its own.  In the lattice oracle every cell   *)
(* outside the collision reaches a placeable surface, so the pipeline      *)
(* draws no element that is not to_model_gracious; SpecDrop hands the      *)
(* function the DrawAreas of a branch that ends above the plate: its root  *)
(* on a layer >= 1 and, on the layer above, the parent of the root.        *)

\* The radii of the polygons of a DrawArea.
DrawRadii == { 0, 1, 2 }

\* The DrawArea of an element of layer lidx at the position `at'.
draw_area_at(lidx, at, dtt, gracious, parents, child, polygons) ==
    [ element |->
        [ TipElement(at, IF gracious THEN TO_MODEL_GRACIOUS ELSE TO_MODEL, dtt, lidx + dtt, 0, FALSE, FALSE)
          EXCEPT !.state.layer_idx = lidx, !.parents = parents ],
      child_element |-> child,
      polygons |-> polygons ]

InitDrop ==
    /\ config = [ BaseConfig EXCEPT !.support_rests_on_model = TRUE ]
    /\ object \in ColumnObjects
    /\ move_bounds = NoMoveBounds
    /\ pc = "drop_non_gracious_areas"
    /\ layer_idx = 0
    /\ merge_every_x_layers = 1
    /\ last_merge_layer_idx = 0
    /\ new_element = FALSE
    /\ overhangs = [ l \in ObjectLayers |-> {} ]
    /\ snapshot = NoMoveBounds
    /\ cancelled = FALSE
    /\ merging = NoMerging
    /\ \E lidx \in 1 .. (NumLayers - 2), at \in Cells, r \in DrawRadii, gracious \in BOOLEAN :
          /\ at \notin getCollision(0, lidx, FALSE)
          /\ at \notin getCollision(0, lidx + 1, FALSE)
          /\ output = [ NoOutput EXCEPT
                !.linear_data =
                    [ l \in Layers |->
                        IF l = lidx
                        THEN << draw_area_at(lidx, at, 1, gracious, << 0 >>, NoChild,
                                    polygons_with_correct_center(
                                        Offset({ at }, r) \ getCollision(0, lidx, FALSE), at)) >>
                        ELSE IF l = lidx + 1
                        THEN << draw_area_at(lidx + 1, at, 0, gracious, << >>, 0, { at }) >>
                        ELSE << >> ] ]

\* The call of drop_non_gracious_areas and the combining loop of draw_areas.
DropNonGraciousAreas ==
    /\ pc = "drop_non_gracious_areas"
    /\ output' = [ output EXCEPT
            !.dropped_down_areas = drop_non_gracious_areas(output.linear_data),
            !.support_layer_storage =
                support_layer_storage_of(output.linear_data, drop_non_gracious_areas(output.linear_data)) ]
    /\ pc' = "dropped"
    /\ UNCHANGED << config, object, merging, move_bounds, layer_idx, merge_every_x_layers,
                    last_merge_layer_idx, new_element, overhangs, snapshot, cancelled >>

NextDrop == DropNonGraciousAreas

SpecDrop == InitDrop /\ [][NextDrop]_vars

----------------------------------------------------------------------------
(* The claims.                                                             *)

\* C1: in every state of the pipeline, from the placement of the tips to
\* the compaction, every parent index stored in an element of
\* move_bounds[l] is an index into move_bounds[l + 1] (so a layer with no
\* layer above it holds no parent index, and the parent graph is acyclic).
C1_ParentIndicesValid ==
    \A l \in DOMAIN move_bounds :
        \A i \in 1 .. Len(move_bounds[l]) :
            \A k \in 1 .. Len(move_bounds[l][i].parents) :
                /\ (l + 1) \in DOMAIN move_bounds
                /\ 0 <= move_bounds[l][i].parents[k]
                /\ move_bounds[l][i].parents[k] < Len(move_bounds[l + 1])

\* C1 witness: the compaction has run, it removed elements of a layer, and
\* an element of the layer below that layer holds the indices of several
\* parents (it is the result of a merge).
C1_Witness ==
    /\ pc = "draw_areas"
    /\ \E l \in DOMAIN move_bounds :
          /\ (l + 1) \in DOMAIN move_bounds
          /\ Len(move_bounds[l + 1]) < Len(snapshot[l + 1])
          /\ \E i \in 1 .. Len(move_bounds[l]) : Len(move_bounds[l][i].parents) > 1

\* C2: remove_deleted_elements keeps exactly the elements that are not
\* flagged deleted, unchanged but for their parent indices, and every parent
\* index of a kept element designates afterwards the element it designated
\* before.
C2_CompactionExact ==
    pc = "compacted" =>
        \A l \in DOMAIN snapshot :
            /\ Len(move_bounds[l])
                 = Cardinality({ i \in 1 .. Len(snapshot[l]) : ~snapshot[l][i].state.deleted })
            /\ \A i \in 1 .. Len(snapshot[l]) :
                  ~snapshot[l][i].state.deleted =>
                      \E j \in 1 .. Len(move_bounds[l]) :
                          /\ move_bounds[l][j].state = snapshot[l][i].state
                          /\ move_bounds[l][j].influence_area = snapshot[l][i].influence_area
                          /\ Len(move_bounds[l][j].parents) = Len(snapshot[l][i].parents)
                          /\ \A k \in 1 .. Len(snapshot[l][i].parents) :
                                /\ 0 <= move_bounds[l][j].parents[k]
                                /\ move_bounds[l][j].parents[k] < Len(move_bounds[l + 1])
                                /\ move_bounds[l + 1][move_bounds[l][j].parents[k] + 1].state
                                     = snapshot[l + 1][snapshot[l][i].parents[k] + 1].state

\* C2 witness: the top layer lost its first element, the layer below it lost
\* none, the bottom layer lost its last one, and a kept element of the middle
\* layer had a parent index renumbered.
C2_Witness ==
    /\ pc = "compacted"
    /\ Len(snapshot[2]) = 3 /\ snapshot[2][1].state.deleted /\ Len(move_bounds[2]) = 2
    /\ Len(snapshot[1]) = 3 /\ Len(move_bounds[1]) = 3
    /\ Len(snapshot[0]) = 2 /\ snapshot[0][2].state.deleted /\ Len(move_bounds[0]) = 1
    /\ \E i \in 1 .. 3 : /\ Len(move_bounds[1][i].parents) = 1
                         /\ move_bounds[1][i].parents # snapshot[1][i].parents
    /\ Len(move_bounds[0][1].parents) = 2

\* C3: once the nodes are resolved, the position of every element lies
\* within radius(element) - radius(parent) + 2 * maximum_move_distance_slow
\* of the position of each of its parents, whatever settings and merges
\* produced the element.
C3_SlopeBound ==
    pc = "draw_areas" =>
        \A l \in DOMAIN move_bounds :
            \A i \in 1 .. Len(move_bounds[l]) :
                \A k \in 1 .. Len(move_bounds[l][i].parents) :
                    LET e == move_bounds[l][i].state
                        p == move_bounds[l + 1][move_bounds[l][i].parents[k] + 1].state
                    IN  (e.result_on_layer # NoPoint /\ p.result_on_layer # NoPoint) =>
                        Abs(e.result_on_layer - p.result_on_layer)
                            < getRadius(e) - getRadius(p) + 2 * config.maximum_move_distance_slow

\* C4: the influence area stored for an element never intersects the
\* collision volume of the element's own collision radius on its layer,
\* taken with the XY distance the element uses.
C4_InfluenceAreaAvoidsCollision ==
    \A l \in DOMAIN move_bounds :
        \A i \in 1 .. Len(move_bounds[l]) :
            move_bounds[l][i].influence_area
                \cap getCollision(getCollisionRadius(move_bounds[l][i].state), l,
                                  move_bounds[l][i].state.use_min_xy_dist) = {}

\* The build plate avoidance of an element of layer l: of its collision
\* radius, of the avoidance type of its last area increase and of its XY
\* distance.
bp_avoidance_of(elem, l) ==
    getAvoidance(getCollisionRadius(elem.state), l, elem.state.last_area_increase.type,
                 FALSE, elem.state.use_min_xy_dist)

\* C5 as stated: the influence area stored for an element that goes to the
\* build plate lies outside the build plate avoidance of the element.
C5_AreaOutsideAvoidance ==
    \A l \in DOMAIN move_bounds :
        \A i \in 1 .. Len(move_bounds[l]) :
            move_bounds[l][i].state.to_buildplate =>
                move_bounds[l][i].influence_area \cap bp_avoidance_of(move_bounds[l][i], l) = {}

\* C5: the influence area stored for an element that goes to the build
\* plate and is a tip or has one parent (it is no result of a merge) has a
\* part outside the build plate avoidance of the element; the stored area is
\* the union of that part with the area that only respects the collision,
\* so as a whole it may reach into the avoidance.
C5_AreaLeavesAvoidance ==
    \A l \in DOMAIN move_bounds :
        \A i \in 1 .. Len(move_bounds[l]) :
            (move_bounds[l][i].state.to_buildplate /\ Len(move_bounds[l][i].parents) <= 1) =>
                move_bounds[l][i].influence_area \ bp_avoidance_of(move_bounds[l][i], l) # {}

\* C5 witness: an element with one parent that goes to the build plate, whose
\* stored area has cells inside and cells outside its avoidance.
C5_Witness ==
    \E l \in DOMAIN move_bounds :
        \E i \in 1 .. Len(move_bounds[l]) :
            /\ move_bounds[l][i].state.to_buildplate
            /\ Len(move_bounds[l][i].parents) = 1
            /\ move_bounds[l][i].influence_area \cap bp_avoidance_of(move_bounds[l][i], l) # {}
            /\ move_bounds[l][i].influence_area \ bp_avoidance_of(move_bounds[l][i], l) # {}

\* C6: when merge_influence_areas has finished a layer, no two of the
\* elements it left that both go to the build plate are accepted by
\* merge_influence_areas_two_elements (their to_bp_areas no longer overlap
\* in the sense of that predicate), and running merge_influence_areas on
\* the elements it left merges nothing and changes no element.
C6_MergerFixpoint ==
    pc = "merged" =>
        /\ \A a \in 1 .. Len(merging.remaining), b \in 1 .. Len(merging.remaining) :
              (a # b /\ merging.remaining[a].state.to_buildplate
                     /\ merging.remaining[b].state.to_buildplate) =>
                  ~merge_influence_areas_two_elements(merging.layer_idx,
                        merging.remaining[a], merging.remaining[b]).merged
        /\ Len(merging.again) = Len(merging.remaining)
        /\ \A a \in 1 .. Len(merging.remaining) :
              \E b \in 1 .. Len(merging.again) : merging.again[b] = merging.remaining[a]

\* C7: merge_influence_areas_two_elements accepts (first, second) exactly
\* when it accepts (second, first), and then both orders give the same
\* merged state (next_position and target_position included), the same
\* parents as a set and the same three areas.
C7_MergeCommutative ==
    pc = "merged_two_elements" =>
        /\ merging.first_second.merged = merging.second_first.merged
        /\ merging.first_second.merged =>
              /\ merging.first_second.dst.state = merging.second_first.dst.state
              /\ merging.first_second.dst.areas = merging.second_first.dst.areas
              /\ { merging.first_second.dst.parents[k] : k \in 1 .. Len(merging.first_second.dst.parents) }
                   = { merging.second_first.dst.parents[k] : k \in 1 .. Len(merging.second_first.dst.parents) }

\* C8: when generate_overhangs found no overhang on any layer, the run ends
\* after precalculate: move_bounds is never constructed, no element is
\* created, no support layer is produced and no later stage is entered.
C8_NoOverhangNoSupport ==
    (pc # "generate_overhangs" /\ \A l \in DOMAIN overhangs : overhangs[l] = {}) =>
        /\ pc \in { "precalculate", "finished", "cancelled" }
        /\ move_bounds = NoMoveBounds
        /\ output = NoOutput

\* C8 witness: the run of an object that is not empty and has no overhang
\* has finished without a cancellation.
C8_Witness ==
    /\ pc = "finished"
    /\ ~cancelled
    /\ \E z \in DOMAIN object : object[z] # {}
    /\ \A l \in DOMAIN overhangs : overhangs[l] = {}
    /\ output = NoOutput

\* The elements of mb without parents: the tips.
tips_of(mb) ==
    { li \in UNION { { << l, i >> : i \in 1 .. Len(mb[l]) } : l \in DOMAIN mb } :
        mb[li[1]][li[2]].parents = << >> }

\* mb holds one element on each layer from the layer tip_layer of the tip
\* down to layer lowest, each below the tip with the element above it as its
\* only parent and with a radius (real and collision) not below that of its
\* parent.
single_branch(mb, tip_layer, lowest) ==
    /\ lowest <= tip_layer
    /\ \A l \in lowest .. tip_layer :
          /\ Len(mb[l]) = 1
          /\ l < tip_layer =>
                /\ mb[l][1].parents = << 0 >>
                /\ getRadius(mb[l][1].state) >= getRadius(mb[l + 1][1].state)
                /\ getCollisionRadius(mb[l][1].state) >= getCollisionRadius(mb[l + 1][1].state)

\* C9: in a run with exactly one tip, every iteration of create_layer_pathing
\* in which a setting of increase_areas_one_layer is feasible for the element
\* of its layer leaves one element on each layer from the tip down to the
\* layer below, each with the element above it as its only parent and a
\* radius that does not decrease downwards; so when a setting is feasible on
\* every layer this holds down to layer 0.
C9_SingleTipBranch ==
    [][ ( /\ pc = "create_layer_pathing"
          /\ ~cancelled /\ ~cancelled'
          /\ Cardinality(tips_of(move_bounds)) = 1
          /\ move_bounds[layer_idx] # << >>
          /\ increase_areas_one_layer(layer_idx, move_bounds[layer_idx], merge_this_layer)[1].add )
        => \A tip \in tips_of(move_bounds) : single_branch(move_bounds', tip[1], layer_idx - 1) ]_vars

\* C9 witness: create_layer_pathing has finished for a single tip placed three
\* or more layers above the plate, the branch reaches layer 0 and is thicker
\* there than at the tip.
C9_Witness ==
    /\ pc = "create_nodes_from_area"
    /\ Cardinality(tips_of(move_bounds)) = 1
    /\ \E tip \in tips_of(move_bounds) :
          /\ tip[1] >= 3
          /\ getRadius(move_bounds[0][1].state) > getRadius(move_bounds[tip[1]][1].state)
          /\ single_branch(move_bounds, tip[1], 0)

\* C10: a step that reaches a poll of throw_on_cancel while the cancellation
\* predicate holds ends the run: the stage stops, move_bounds is destroyed,
\* no support layer is produced or handed to generate_support_toolpaths, and
\* no step is taken after the run was cancelled.
C10_CancelStops ==
    /\ [](pc = "cancelled" => (output = NoOutput /\ move_bounds = NoMoveBounds))
    /\ [][ /\ (cancelled /\ step_polls) => pc' = "cancelled"
           /\ pc # "cancelled" ]_vars

\* C10 witness: the cancellation was seen by the poll of draw_areas, after
\* all nodes were resolved, and nothing was produced.
C10_Witness ==
    /\ pc = "cancelled"
    /\ cancelled
    /\ snapshot # NoMoveBounds
    /\ output = NoOutput

\* C11: when drop_non_gracious_areas has run, for every DrawArea of a layer
\* L >= 1 whose element is not to_model_gracious, has no child and has
\* polygons, what the function appended to each layer k < L covers the
\* polygons of the element less the collision of the layers L - 1 down to k
\* (the area that remains of the branch on layer k).
C11_DroppedBelow ==
    pc \in { "dropped", "generate_support_toolpaths" } =>
        \A l \in DOMAIN output.linear_data :
            \A i \in 1 .. Len(output.linear_data[l]) :
                ( /\ l >= 1
                  /\ ~output.linear_data[l][i].element.state.to_model_gracious
                  /\ output.linear_data[l][i].child_element = NoChild
                  /\ output.linear_data[l][i].polygons # {} ) =>
                    \A k \in 0 .. (l - 1) :
                        (output.linear_data[l][i].polygons
                            \ UNION { getCollision(0, j, FALSE) : j \in k .. (l - 1) })
                        \subseteq output.dropped_down_areas[k]

\* Is the element idx of the layer lidx of mb named as a parent by an element
\* of the layer below?
has_child(mb, lidx, idx) ==
    /\ lidx >= 1
    /\ \E j \in 1 .. Len(mb[lidx - 1]) :
          \E k \in 1 .. Len(mb[lidx - 1][j].parents) : mb[lidx - 1][j].parents[k] = idx

\* The element idx of the layer lidx of mb and its transitive parents, as
\* << layer, index >> pairs.
RECURSIVE with_transitive_parents(_, _, _)
with_transitive_parents(mb, lidx, idx) ==
    { << lidx, idx >> } \cup
    UNION { with_transitive_parents(mb, lidx + 1, mb[lidx][idx + 1].parents[k]) :
                k \in 1 .. Len(mb[lidx][idx + 1].parents) }

\* The elements of the layer l of mb that are not flagged deleted.
kept_elements(mb, l) == SelectSeq(mb[l], LAMBDA e : ~e.state.deleted)

\* C12: with support_rests_on_model = false, (1) an iteration of
\* create_layer_pathing creates no child for an element of its layer (a layer
\* >= 1) for which no setting of increase_areas_one_layer succeeds; (2) when
\* create_nodes_from_area returns, every element of a layer >= 1 that has no
\* child is flagged deleted together with all its transitive parents up to
\* the tips, and move_bounds holds, layer by layer, only the elements that
\* were not flagged, none of them without a child on a layer >= 1; (3) no
\* element without a child is drawn on a layer >= 1.
C12_FailedBranchRemoved ==
    [][ ~config.support_rests_on_model =>
        /\ (pc = "create_layer_pathing" /\ layer_idx' = layer_idx - 1) =>
              \A i \in 1 .. Len(move_bounds[layer_idx]) :
                 ~increase_area(i - 1, layer_idx, move_bounds[layer_idx],
                        new_element \/ (last_merge_layer_idx - layer_idx) >= merge_every_x_layers).add
                 => /\ ~has_child(move_bounds', layer_idx, i - 1)
                    /\ ~result_on_layer_is_set(move_bounds'[layer_idx][i].state)
        /\ pc' = "draw_areas" =>
              /\ \A l \in DOMAIN snapshot' : \A i \in 1 .. Len(snapshot'[l]) :
                    (l >= 1 /\ ~has_child(snapshot', l, i - 1)) =>
                        \A e \in with_transitive_parents(snapshot', l, i - 1) :
                            snapshot'[e[1]][e[2] + 1].state.deleted
              /\ \A l \in DOMAIN snapshot' :
                    /\ Len(move_bounds'[l]) = Len(kept_elements(snapshot', l))
                    /\ \A i \in 1 .. Len(move_bounds'[l]) :
                          /\ \E j \in 1 .. Len(snapshot'[l]) :
                                /\ ~snapshot'[l][j].state.deleted
                                /\ snapshot'[l][j].state = move_bounds'[l][i].state
                          /\ l >= 1 => has_child(move_bounds', l, i - 1)
        /\ pc' = "generate_support_toolpaths" =>
              \A l \in DOMAIN output'.linear_data : \A i \in 1 .. Len(output'.linear_data[l]) :
                 l >= 1 => output'.linear_data[l][i].child_element # NoChild
      ]_vars

\* create_nodes_from_area has returned, an element of a layer >= 1 for which
\* no setting succeeded was removed with its parents, and another branch is
\* left in move_bounds.
C12_Witness ==
    /\ ~config.support_rests_on_model
    /\ pc = "draw_areas"
    /\ \E l \in DOMAIN snapshot : \E i \in 1 .. Len(snapshot[l]) :
          /\ l >= 1
          /\ ~has_child(snapshot, l, i - 1)
          /\ Len(snapshot[l][i].parents) >= 1
          /\ \A e \in with_transitive_parents(snapshot, l, i - 1) :
                snapshot[e[1]][e[2] + 1].state.deleted
    /\ \E l \in DOMAIN move_bounds : move_bounds[l] # << >>

\* Does the iteration of create_layer_pathing at layer_idx run as a merge
\* layer?
mergelayer_now == new_element \/ (last_merge_layer_idx - layer_idx) >= merge_every_x_layers

\* The locals of the body of increase_areas_one_layer for the parent when the
\* loop over the order begins: the order, and what the loop reads.
settings_loop(parent, lidx, mergelayer) ==
    LET elem   == propagate_down(parent.state)
        es     == extra_speeds(parent)
        radius == getCollisionRadius(elem)
        smd    == safe_movement_distance(elem.use_min_xy_dist)
        wall_restriction == getWallRestriction(getCollisionRadius(parent.state), lidx,
                                               parent.state.use_min_xy_dist)
        slow_speed == config.maximum_move_distance_slow + es.extra_speed + es.extra_slow_speed
        fast_speed == config.maximum_move_distance + es.extra_speed
        independant == offset_independant_faster(radius, smd, es)
        offset_slow == safe_offset_inc(parent.influence_area, slow_speed, wall_restriction, smd,
                                       IF independant THEN smd + radius ELSE 0, 2)
    IN  [ elem  |-> elem,
          order |-> settings_order(elem, parent, lidx, mergelayer, slow_speed, fast_speed, radius),
          ctx   |-> [ lidx |-> lidx, parent |-> parent, mergelayer |-> mergelayer,
                      extra_speed |-> es.extra_speed, slow_speed |-> slow_speed,
                      offset_slow |-> offset_slow,
                      offset_fast |->
                          safe_offset_inc(
                              IF independant THEN parent.influence_area ELSE offset_slow,
                              IF independant THEN fast_speed
                              ELSE config.maximum_move_distance
                                   - (config.maximum_move_distance_slow + es.extra_slow_speed),
                              wall_restriction, smd, smd + radius, 1),
                      to_bp_data |-> {}, to_model_data |-> {} ] ]

\* The call of increase_single_area of the loop for one setting.
setting_attempt(settings, ctx) ==
    increase_single_area(settings, ctx.lidx, ctx.parent,
        IF ~settings.no_error THEN ctx.parent.influence_area
        ELSE IF settings.increase_speed = ctx.slow_speed THEN ctx.offset_slow
        ELSE ctx.offset_fast,
        ctx.to_bp_data, ctx.to_model_data,
        IF ~settings.no_error THEN (3 * (config.maximum_move_distance + ctx.extra_speed)) \div 2 ELSE 0,
        ctx.mergelayer)

\* The loop over the order from its k-th setting on, were it not left at the
\* first result: for each setting, whether increase_single_area gives a
\* result when the settings before it gave none.
RECURSIVE settings_tried(_, _, _)
settings_tried(order, ctx, k) ==
    IF k > Len(order) THEN << >>
    ELSE LET result == setting_attempt(order[k], ctx)
         IN  << result.ok >> \o
             settings_tried(order,
                 [ ctx EXCEPT !.to_bp_data = result.to_bp_data,
                              !.to_model_data = result.to_model_data ],
                 k + 1)

\* C13: in every iteration of create_layer_pathing, for every element of the
\* layer: no setting is twice in the order; a setting with no_error = false
\* is the last of the order; when a child is added, its last_area_increase is
\* the first setting of the order that gives a valid area, every setting
\* before it having been tried and failed; when none is added, every setting
\* of the order failed.
C13_FirstValidSetting ==
    pc = "create_layer_pathing" =>
        \A i \in 1 .. Len(move_bounds[layer_idx]) :
            LET loop  == settings_loop(move_bounds[layer_idx][i], layer_idx, mergelayer_now)
                order == loop.order
                valid == settings_tried(order, loop.ctx, 1)
                r     == increase_area(i - 1, layer_idx, move_bounds[layer_idx], mergelayer_now)
            IN  /\ \A a \in 1 .. Len(order) : \A b \in 1 .. Len(order) : a # b => order[a] # order[b]
                /\ \A a \in 1 .. Len(order) : ~order[a].no_error => a = Len(order)
                /\ r.add =>
                      \E k \in 1 .. Len(order) :
                         /\ valid[k]
                         /\ \A j \in 1 .. (k - 1) : ~valid[j]
                         /\ r.merging_area.state.last_area_increase = order[k]
                /\ ~r.add => \A k \in 1 .. Len(order) : ~valid[k]

\* An element that uses min_xy_dist, whose order holds the settings of both
\* distances and the error setting, and whose child is added by the third
\* setting of the order or a later one.
C13_Witness ==
    /\ pc = "create_layer_pathing"
    /\ \E i \in 1 .. Len(move_bounds[layer_idx]) :
          LET loop == settings_loop(move_bounds[layer_idx][i], layer_idx, mergelayer_now)
              r    == increase_area(i - 1, layer_idx, move_bounds[layer_idx], mergelayer_now)
          IN  /\ move_bounds[layer_idx][i].state.use_min_xy_dist
              /\ ~loop.order[Len(loop.order)].no_error
              /\ r.add
              /\ \E k \in 3 .. Len(loop.order) : r.merging_area.state.last_area_increase = loop.order[k]

\* C14: in every iteration of create_layer_pathing, for every element whose
\* state propagated down has distance_to_top < dont_move_until: the first
\* setting of the order is a no-move setting, and when that setting gives a
\* valid area the child is added with it, keeps the result_on_layer of its
\* parent and keeps its dont_move_until.
C14_NoMoveFirst ==
    pc = "create_layer_pathing" =>
        \A i \in 1 .. Len(move_bounds[layer_idx]) :
            LET parent == move_bounds[layer_idx][i]
                loop   == settings_loop(parent, layer_idx, mergelayer_now)
                r      == increase_area(i - 1, layer_idx, move_bounds[layer_idx], mergelayer_now)
            IN  loop.elem.distance_to_top < loop.elem.dont_move_until =>
                    /\ loop.order # << >>
                    /\ ~Head(loop.order).move
                    /\ setting_attempt(Head(loop.order), loop.ctx).ok =>
                          /\ r.add
                          /\ r.merging_area.state.last_area_increase = Head(loop.order)
                          /\ r.merging_area.state.result_on_layer = parent.state.result_on_layer
                          /\ r.merging_area.state.dont_move_until = parent.state.dont_move_until

\* A tip placed under a roof that could not be added, able to use the safe
\* radius, stays in place on the layer below: the setting put at the front
\* gives a valid area although the element could have moved.
C14_Witness ==
    /\ pc = "create_layer_pathing"
    /\ \E i \in 1 .. Len(move_bounds[layer_idx]) :
          LET parent == move_bounds[layer_idx][i]
              loop   == settings_loop(parent, layer_idx, mergelayer_now)
              r      == increase_area(i - 1, layer_idx, move_bounds[layer_idx], mergelayer_now)
          IN  /\ loop.elem.distance_to_top < loop.elem.dont_move_until
              /\ loop.elem.can_use_safe_radius
              /\ Head(loop.order).increase_speed = 0
              /\ r.add
              /\ result_on_layer_is_set(parent.state)
              /\ r.merging_area.state.result_on_layer = parent.state.result_on_layer
              /\ \E k \in 2 .. Len(loop.order) : settings_tried(loop.order, loop.ctx, 1)[k]

\* The merging area is moved to the output by the remove_if of
\* create_layer_pathing, before the merge, and the layer below holds it as it
\* was computed: the state, the one parent and the influence area.
written_bypassing_merge(merging_area, this_layer) ==
    /\ merging_area.areas.to_bp_areas = {}
    /\ merging_area.areas.to_model_areas = {}
    /\ Len(merging_area.parents) = 1
    /\ \E j \in 1 .. Len(this_layer) : this_layer[j] = to_support_element(merging_area)

\* C15 as stated: in every iteration of create_layer_pathing, the child of an
\* element that was accepted with a setting with move = false or with
\* use_min_distance = true is not handed to merge_influence_areas and is
\* written to the layer below with its one parent and the influence area that
\* increase_areas_one_layer computed.
C15_NeverMerged ==
    [][ (pc = "create_layer_pathing" /\ layer_idx' = layer_idx - 1) =>
          \A i \in 1 .. Len(move_bounds[layer_idx]) :
             LET r == increase_area(i - 1, layer_idx, move_bounds[layer_idx], mergelayer_now)
             IN  ( /\ r.add
                   /\ \/ ~r.merging_area.state.last_area_increase.move
                      \/ r.merging_area.state.last_area_increase.use_min_distance )
                 => written_bypassing_merge(r.merging_area, move_bounds'[layer_idx - 1])
      ]_vars

\* C15: in every iteration of create_layer_pathing, the child of an element
\* that was accepted with a setting with move = false, or with
\* use_min_distance = true while the distance_to_top of the child is below
\* tip_layers, is not handed to merge_influence_areas and is written to the
\* layer below with its one parent and the influence area that
\* increase_areas_one_layer computed.
C15_BypassedNotMerged ==
    [][ (pc = "create_layer_pathing" /\ layer_idx' = layer_idx - 1) =>
          \A i \in 1 .. Len(move_bounds[layer_idx]) :
             LET r == increase_area(i - 1, layer_idx, move_bounds[layer_idx], mergelayer_now)
             IN  ( /\ r.add
                   /\ \/ ~r.merging_area.state.last_area_increase.move
                      \/ /\ r.merging_area.state.last_area_increase.use_min_distance
                         /\ r.merging_area.state.distance_to_top < config.tip_layers )
                 => written_bypassing_merge(r.merging_area, move_bounds'[layer_idx - 1])
      ]_vars

\* An iteration has written, next to another element of the layer, a child
\* with one parent that moved with the minimum xy distance in the tip, and in
\* another layer a child that did not move.
C15_Witness ==
    /\ \E l \in DOMAIN move_bounds : \E j \in 1 .. Len(move_bounds[l]) :
          /\ move_bounds[l][j].state.last_area_increase.use_min_distance
          /\ move_bounds[l][j].state.last_area_increase.move
          /\ move_bounds[l][j].state.distance_to_top >= 1
          /\ move_bounds[l][j].state.distance_to_top < config.tip_layers
          /\ Len(move_bounds[l][j].parents) = 1
          /\ Len(move_bounds[l]) >= 2
    /\ \E l \in DOMAIN move_bounds : \E j \in 1 .. Len(move_bounds[l]) :
          /\ ~move_bounds[l][j].state.last_area_increase.move
          /\ move_bounds[l][j].state.distance_to_top >= 1
          /\ Len(move_bounds[l][j].parents) = 1

\* C16 as stated: in every iteration of create_layer_pathing, the child that
\* increase_areas_one_layer adds for an element has can_use_safe_radius false
\* when the accepted setting is of the Fast avoidance and the value of its
\* parent otherwise, and use_min_xy_dist false when the accepted setting has
\* use_min_distance = false and the value of its parent otherwise.
C16_OnlyDemoted ==
    pc = "create_layer_pathing" =>
        \A i \in 1 .. Len(move_bounds[layer_idx]) :
            LET parent == move_bounds[layer_idx][i].state
                r      == increase_area(i - 1, layer_idx, move_bounds[layer_idx], mergelayer_now)
                child  == r.merging_area.state
            IN  r.add =>
                  /\ child.can_use_safe_radius =
                        (IF child.last_area_increase.type = Fast THEN FALSE ELSE parent.can_use_safe_radius)
                  /\ child.use_min_xy_dist =
                        (IF child.last_area_increase.use_min_distance THEN parent.use_min_xy_dist ELSE FALSE)

\* C16: in every iteration of create_layer_pathing, the child that
\* increase_areas_one_layer adds for an element has can_use_safe_radius false
\* when the accepted setting is of the Fast avoidance and true otherwise,
\* whatever the value of its parent (an element that could not use the safe
\* radius can again once a setting of the Slow or FastSafe avoidance is
\* valid), and use_min_xy_dist false when the accepted setting has
\* use_min_distance = false and the value of its parent otherwise.
C16_SafeRadiusFromSetting ==
    pc = "create_layer_pathing" =>
        \A i \in 1 .. Len(move_bounds[layer_idx]) :
            LET parent == move_bounds[layer_idx][i].state
                r      == increase_area(i - 1, layer_idx, move_bounds[layer_idx], mergelayer_now)
                child  == r.merging_area.state
            IN  r.add =>
                  /\ child.can_use_safe_radius = (child.last_area_increase.type # Fast)
                  /\ child.use_min_xy_dist =
                        (IF child.last_area_increase.use_min_distance THEN parent.use_min_xy_dist ELSE FALSE)

\* A child that can use the safe radius was written below its one parent
\* that could not, and a child that keeps use_min_xy_dist below a parent that
\* had it.
C16_Witness ==
    /\ \E l \in DOMAIN move_bounds : \E j \in 1 .. Len(move_bounds[l]) :
          /\ Len(move_bounds[l][j].parents) = 1
          /\ move_bounds[l][j].state.can_use_safe_radius
          /\ move_bounds[l][j].state.last_area_increase.type # Fast
          /\ ~move_bounds[l + 1][move_bounds[l][j].parents[1] + 1].state.can_use_safe_radius
    /\ \E l \in DOMAIN move_bounds : \E j \in 1 .. Len(move_bounds[l]) :
          /\ Len(move_bounds[l][j].parents) = 1
          /\ move_bounds[l][j].state.use_min_xy_dist
          /\ move_bounds[l][j].state.last_area_increase.use_min_distance
          /\ move_bounds[l + 1][move_bounds[l][j].parents[1] + 1].state.use_min_xy_dist

\* The area increased with the setting, less the avoidance to the build
\* plate of the radius that increase_single_area begins with: what the block
\* of lines 1460-1468 computes as to_bp_data when it is entered.
candidate_to_bp(settings, ctx) ==
    diff_avoidance(
        single_area_increased(settings, ctx.lidx, ctx.parent,
            IF ~settings.no_error THEN ctx.parent.influence_area
            ELSE IF settings.increase_speed = ctx.slow_speed THEN ctx.offset_slow
            ELSE ctx.offset_fast,
            IF ~settings.no_error THEN (3 * (config.maximum_move_distance + ctx.extra_speed)) \div 2 ELSE 0),
        getCollisionRadius(single_area_current_elem(settings, ctx.parent)),
        ctx.lidx, settings, FALSE)

\* C17 as stated: in every iteration of create_layer_pathing, merge layer or
\* not, when a child is added for an element that is not to_buildplate and
\* the area increased with the accepted setting less the avoidance to the
\* build plate has area, the child is to_buildplate.
C17_FlippedOnEveryLayer ==
    pc = "create_layer_pathing" =>
        \A i \in 1 .. Len(move_bounds[layer_idx]) :
            LET parent == move_bounds[layer_idx][i]
                loop   == settings_loop(parent, layer_idx, mergelayer_now)
                r      == increase_area(i - 1, layer_idx, move_bounds[layer_idx], mergelayer_now)
            IN  ( /\ r.add
                  /\ ~parent.state.to_buildplate
                  /\ HasArea(candidate_to_bp(r.merging_area.state.last_area_increase, loop.ctx)) )
                => r.merging_area.state.to_buildplate

\* C17: in every iteration of create_layer_pathing, when a child is added for
\* an element that is not to_buildplate: on a merge layer the child is
\* to_buildplate if the area increased with the accepted setting less the
\* avoidance to the build plate has area; on a layer that is not a merge
\* layer the child is not to_buildplate, whatever that area.
C17_FlippedOnMergeLayer ==
    pc = "create_layer_pathing" =>
        \A i \in 1 .. Len(move_bounds[layer_idx]) :
            LET parent == move_bounds[layer_idx][i]
                loop   == settings_loop(parent, layer_idx, mergelayer_now)
                r      == increase_area(i - 1, layer_idx, move_bounds[layer_idx], mergelayer_now)
            IN  (r.add /\ ~parent.state.to_buildplate) =>
                    r.merging_area.state.to_buildplate =
                        ( /\ mergelayer_now
                          /\ HasArea(candidate_to_bp(r.merging_area.state.last_area_increase, loop.ctx)) )

\* A child that is to_buildplate was written below its one parent that is
\* not.
C17_Witness ==
    \E l \in DOMAIN move_bounds : \E j \in 1 .. Len(move_bounds[l]) :
        /\ Len(move_bounds[l][j].parents) = 1
        /\ move_bounds[l][j].state.to_buildplate
        /\ ~move_bounds[l + 1][move_bounds[l][j].parents[1] + 1].state.to_buildplate

----------------------------------------------------------------------------
\* The pair handed to merge_influence_areas_two_elements is below
\* min_dtt_to_model and neither element supports a roof.
pair_below_min_dtt ==
    /\ pc = "merged_two_elements"
    /\ ~merging.first.state.supports_roof /\ ~merging.second.state.supports_roof
    /\ merging.first.state.distance_to_top < config.min_dtt_to_model
    /\ merging.second.state.distance_to_top < config.min_dtt_to_model

pair_to_bp == merging.first.state.to_buildplate /\ merging.second.state.to_buildplate

\* C18 (as stated): the pairwise merge rejects every pair in which neither
\* element supports a roof and both have distance_to_top below
\* min_dtt_to_model, whatever the to_buildplate flags of the two elements.
C18_RejectedBelowMinDtt ==
    pair_below_min_dtt => (~merging.first_second.merged /\ ~merging.second_first.merged)

\* C18 (amended): such a pair is rejected unless both elements are
\* to_buildplate; two to_buildplate elements are not subject to the test.
C18_RejectedUnlessToBuildplate ==
    (pair_below_min_dtt /\ ~pair_to_bp) =>
        (~merging.first_second.merged /\ ~merging.second_first.merged)

\* A pair below min_dtt_to_model of which an element rests on the model and
\* whose areas meet was handed to the merge.
C18_Witness ==
    /\ pair_below_min_dtt /\ ~pair_to_bp
    /\ merging.first.areas.to_model_areas \cap merging.second.areas.to_model_areas # {}
    /\ merging.first.state.to_model_gracious = merging.second.state.to_model_gracious
    /\ merging.first.state.use_min_xy_dist = merging.second.state.use_min_xy_dist
    /\ merging.first.state.can_use_safe_radius = merging.second.state.can_use_safe_radius

----------------------------------------------------------------------------
\* The state, the parents and the emptied source that
\* merge_influence_areas_two_elements(dst, src) leaves when it merged.
merged_as_stated(dst, src, m) ==
    /\ m.dst.state.distance_to_top = Max(dst.state.distance_to_top, src.state.distance_to_top)
    /\ m.dst.state.effective_radius_height =
           Max(dst.state.effective_radius_height, src.state.effective_radius_height)
    /\ m.dst.state.dont_move_until = Max(dst.state.dont_move_until, src.state.dont_move_until)
    /\ m.dst.state.to_buildplate = (dst.state.to_buildplate /\ src.state.to_buildplate)
    /\ m.dst.state.to_model_gracious = (dst.state.to_model_gracious /\ src.state.to_model_gracious)
    /\ m.dst.state.use_min_xy_dist = (dst.state.use_min_xy_dist \/ src.state.use_min_xy_dist)
    /\ m.dst.state.supports_roof = (dst.state.supports_roof \/ src.state.supports_roof)
    /\ m.dst.parents = dst.parents \o src.parents
    /\ m.src.parents = << >>
    /\ m.src.areas = EmptyAreas

----------------------------------------------------------------------------
\* The pair of the last merge is a to_buildplate area and a thinner area
\* that rests on the model: the latter, the former, and the outcome.
thicker_to_bp_pairs ==
    { [ to_model |-> IF p.dst.state.to_buildplate THEN p.src ELSE p.dst,
        to_bp    |-> IF p.dst.state.to_buildplate THEN p.dst ELSE p.src,
        result   |-> p.result ] :
      p \in { q \in { merging.pairs[i] : i \in DOMAIN merging.pairs } :
                /\ q.dst.state.to_buildplate # q.src.state.to_buildplate
                /\ IF q.dst.state.to_buildplate
                   THEN getRadius(q.dst.state) > getRadius(q.src.state)
                   ELSE getRadius(q.src.state) > getRadius(q.dst.state) } }

\* C20: after any sequence of successful and rejected pairwise merges that
\* starts from areas with increased_to_model_radius = 0, every area has
\* increased_to_model_radius at most max_to_model_radius_increase, and each
\* time a thicker to_buildplate area is merged into a thinner to-model area
\* the merged value is the previous value of the to-model area plus the
\* difference of the radii.
C20_ToModelRadiusBounded ==
    pc = "merge_influence_areas" =>
        /\ \A i \in 1 .. Len(merging.pool) :
               /\ merging.pool[i].state.increased_to_model_radius >= 0
               /\ merging.pool[i].state.increased_to_model_radius <= config.max_to_model_radius_increase
        /\ \A p \in thicker_to_bp_pairs :
               p.result.merged =>
                   p.result.dst.state.increased_to_model_radius =
                       p.to_model.state.increased_to_model_radius
                           + getRadius(p.to_bp.state) - getRadius(p.to_model.state)

\* A to-model area that was already widened by a merge was merged with a
\* to_buildplate area thicker than itself.
C20_Witness ==
    /\ pc = "merge_influence_areas"
    /\ \E p \in thicker_to_bp_pairs :
          /\ p.result.merged
          /\ p.to_model.state.increased_to_model_radius > 0
          /\ p.result.dst.state.increased_to_model_radius > p.to_model.state.increased_to_model_radius

----------------------------------------------------------------------------
\* The layer loop of create_nodes_from_area from the layer lidx on: the
\* tree when the loop has finished (before remove_deleted_elements).
RECURSIVE create_nodes_from_layer(_, _)
create_nodes_from_layer(mb, lidx) ==
    IF ~has_layer(mb, lidx) THEN mb
    ELSE create_nodes_from_layer(create_nodes_layer(clear_marks(mb, lidx + 1), lidx, 0), lidx + 1)

\* The element idx of the layer lidx is handed to
\* set_to_model_contact_to_model_gracious when the loop visits it.
visited_for_gracious_contact(mb, lidx, idx) ==
    LET elem == mb[lidx][idx + 1].state
    IN  /\ ~result_on_layer_is_set(elem)
        /\ ~elem.to_buildplate
        /\ ~(elem.distance_to_top < config.min_dtt_to_model /\ ~elem.supports_roof)
        /\ elem.to_model_gracious

\* The chain element of the layer l above the element idx of the layer lidx
\* (its 0-based index), following the first parent.
RECURSIVE chain_element(_, _, _, _)
chain_element(mb, lidx, idx, l) ==
    IF l = lidx THEN idx
    ELSE chain_element(mb, lidx + 1, mb[lidx][idx + 1].parents[1], l)

\* C24: when the layer loop of create_nodes_from_area comes to a layer
\* i >= 1, no element of that layer is flagged deleted (a visit changes the
\* flag of the visited element and of elements of higher layers only, so
\* this is the assertion at the head of the per-element loop).
C24_VisitedNotDeleted ==
    (pc = "create_nodes_layer" /\ has_layer(move_bounds, layer_idx)) =>
        \A j \in 1 .. Len(move_bounds[layer_idx]) : ~move_bounds[layer_idx][j].state.deleted

----------------------------------------------------------------------------
\* The outcome the statement describes for the element idx of the layer
\* lidx of mb, `final' being the tree when the resolver has finished: the
\* chain element of the anchor layer is kept with a point inside its
\* influence area, the chain elements below it are flagged deleted.
anchored_as_stated(mb, lidx, idx, last, final) ==
    /\ ~final[last[1]][last[2] + 1].state.deleted
    /\ final[last[1]][last[2] + 1].state.result_on_layer \in final[last[1]][last[2] + 1].influence_area
    /\ \A l \in lidx .. (last[1] - 1) : final[l][chain_element(mb, lidx, idx, l) + 1].state.deleted

\* C21: for a to_model_gracious element E of a layer L whose position is
\* not set when the resolver visits it, A being the highest layer reached
\* by the upward walk along the single-parent chain while the influence
\* area meets the placeable area: when the resolver has finished, the chain
\* element of the layer A is kept with result_on_layer inside its influence
\* area and the chain elements of the layers L .. A - 1 are flagged deleted.
C21_GraciousAnchor ==
    (pc = "create_nodes_layer" /\ has_layer(move_bounds, layer_idx)) =>
        LET mb    == clear_marks(move_bounds, layer_idx + 1)
            final == create_nodes_from_layer(move_bounds, layer_idx)
        IN  \A j \in 1 .. Len(mb[layer_idx]) :
                LET last == last_successfull_layer(mb, layer_idx, j - 1, << >>)
                IN  (visited_for_gracious_contact(mb, layer_idx, j - 1) /\ last # << >>) =>
                        anchored_as_stated(mb, layer_idx, j - 1, last, final)

----------------------------------------------------------------------------
(* Tip placement in parallel.  generate_initial_areas runs one task for    *)
(* each source layer (tbb::parallel_for); a task offers its points, one    *)
(* after the other, to addPointAsInfluenceArea, the roof lead-in giving a  *)
(* point a target layer below its source layer.  SpecTips interleaves the  *)
(* steps of the tasks: the construction of the lock_guard, the lookup in   *)
(* already_inserted, the two emplace calls and the release of the mutex.   *)

\* The source layers of the tasks and the positions of their sample points.
TipTasks == { 3, 4 }
TipCells == { 0, 1, 3 }
NoTask == 0

\* min_radius in the units of the coordinates of the sample points.
TipConfigs ==
    { [ BaseConfig EXCEPT !.support_rests_on_model = rests, !.min_radius = r ] :
        rests \in BOOLEAN, r \in { 19, 29 } }

\* The points a task offers: the task of the upper layer offers two points,
\* to its own layer or to the layer below; the task of the lower layer one
\* point to its own layer and a second one to its own layer or below.
TipOffers(t) ==
    { << [ p |-> p1, status |-> TO_BP, insert_layer |-> l1 ],
         [ p |-> p2, status |-> s2, insert_layer |-> l2 ] >> :
        p1 \in TipCells, p2 \in TipCells, s2 \in { TO_BP, TO_MODEL_GRACIOUS },
        l1 \in (IF t = 4 THEN { 3, 4 } ELSE { 3 }), l2 \in { t - 1, t } }

\* A lock_guard whose constructor does not wait for the mutex.
lock_guard_acquires_unguarded(mutex, t) == TRUE

\* std::lock_guard<std::mutex> critical_section_movebounds(mutex_movebounds):
\* the constructor returns when no other task holds the mutex.
lock_guard_acquires(mutex, t) == mutex = NoTask

\* Point hash_pos = p.first / ((mesh_config.min_radius + 1) / 10)
hash_pos(p) == p \div ((config.min_radius + 1) \div 10)

InitTips ==
    /\ config \in TipConfigs
    /\ object = EmptyObject
    /\ move_bounds = [ l \in Layers |-> << >> ]
    /\ pc = "generate_initial_areas"
    /\ layer_idx = 0
    /\ merge_every_x_layers = 1
    /\ last_merge_layer_idx = 0
    /\ new_element = FALSE
    /\ overhangs = [ l \in ObjectLayers |-> {} ]
    /\ snapshot = NoMoveBounds
    /\ cancelled = FALSE
    /\ output = NoOutput
    /\ \E offers \in [ TipTasks -> UNION { TipOffers(t) : t \in TipTasks } ] :
          /\ \A t \in TipTasks : offers[t] \in TipOffers(t)
          /\ merging = [ offers           |-> offers,
                         at               |-> [ t \in TipTasks |-> "call" ],
                         next             |-> [ t \in TipTasks |-> 1 ],
                         mutex            |-> NoTask,
                         already_inserted |-> [ l \in Layers |-> {} ] ]

\* The task t is at the position `at' of addPointAsInfluenceArea.
tip_task_at(t, at) ==
    /\ pc = "generate_initial_areas"
    /\ merging.next[t] <= Len(merging.offers[t])
    /\ merging.at[t] = at

\* The point the task t is offering.
tip_offer(t) == merging.offers[t][merging.next[t]]

tips_unchanged ==
    UNCHANGED << config, object, pc, layer_idx, merge_every_x_layers, last_merge_layer_idx,
                 new_element, overhangs, snapshot, cancelled, output >>

\* The early return for a point that cannot be supported.
TipRefuse(t) ==
    /\ tip_task_at(t, "call")
    /\ ~config.support_rests_on_model /\ tip_offer(t).status \notin { TO_BP, TO_BP_SAFE }
    /\ merging' = [ merging EXCEPT !.next[t] = @ + 1 ]
    /\ UNCHANGED move_bounds
    /\ tips_unchanged

\* The constructor of the lock_guard.
TipLock(t) ==
    /\ tip_task_at(t, "call")
    /\ ~(~config.support_rests_on_model /\ tip_offer(t).status \notin { TO_BP, TO_BP_SAFE })
    /\ lock_guard_acquires(merging.mutex, t)
    /\ merging' = [ merging EXCEPT !.mutex = t, !.at[t] = "count" ]
    /\ UNCHANGED move_bounds
    /\ tips_unchanged

\* if (! already_inserted[insert_layer].count(hash_pos))
TipCount(t) ==
    /\ tip_task_at(t, "count")
    /\ merging' = [ merging EXCEPT !.at[t] =
                        IF hash_pos(tip_offer(t).p) \in merging.already_inserted[tip_offer(t).insert_layer]
                        THEN "unlock" ELSE "emplace" ]
    /\ UNCHANGED move_bounds
    /\ tips_unchanged

\* already_inserted[insert_layer].emplace(hash_pos) and
\* move_bounds[insert_layer].emplace_back(state, circle)
TipEmplace(t) ==
    /\ tip_task_at(t, "emplace")
    /\ merging' = [ merging EXCEPT !.at[t] = "unlock",
                                   !.already_inserted[tip_offer(t).insert_layer] = @ \cup { hash_pos(tip_offer(t).p) } ]
    /\ move_bounds' = [ move_bounds EXCEPT ![tip_offer(t).insert_layer] =
                          Append(@, TipElement(tip_offer(t).p, tip_offer(t).status, 0,
                                               tip_offer(t).insert_layer, 0, FALSE, FALSE)) ]
    /\ tips_unchanged

\* The destructor of the lock_guard; the task goes on to its next point.
TipUnlock(t) ==
    /\ tip_task_at(t, "unlock")
    /\ merging' = [ merging EXCEPT !.mutex = NoTask, !.at[t] = "call", !.next[t] = @ + 1 ]
    /\ UNCHANGED move_bounds
    /\ tips_unchanged

NextTips ==
    \E t \in TipTasks : TipRefuse(t) \/ TipLock(t) \/ TipCount(t) \/ TipEmplace(t) \/ TipUnlock(t)

SpecTips == InitTips /\ [][NextTips]_vars

\* C22: under every interleaving of the tip-placement tasks no layer of
\* move_bounds holds two tips whose positions fall into the same hash cell
\* of size (min_radius + 1) / 10, and a task that is looking up or inserting
\* into already_inserted and move_bounds holds the one mutex.
C22_OneTipPerCell ==
    (pc = "generate_initial_areas" /\ DOMAIN merging = { "offers", "at", "next", "mutex", "already_inserted" }) =>
        /\ \A l \in DOMAIN move_bounds :
              \A i \in 1 .. Len(move_bounds[l]), j \in 1 .. Len(move_bounds[l]) :
                  i # j => hash_pos(move_bounds[l][i].state.target_position)
                             # hash_pos(move_bounds[l][j].state.target_position)
        /\ \A t \in TipTasks :
              (merging.next[t] <= Len(merging.offers[t]) /\ merging.at[t] \in { "count", "emplace", "unlock" })
                  => merging.mutex = t

\* Two tasks offered different points of one hash cell to the same layer,
\* both are through, and the layer holds one tip for that cell.
C22_Witness ==
    /\ pc = "generate_initial_areas"
    /\ DOMAIN merging = { "offers", "at", "next", "mutex", "already_inserted" }
    /\ \A t \in TipTasks : merging.next[t] > Len(merging.offers[t])
    /\ \E a \in 1 .. 2, b \in 1 .. 2 :
          /\ merging.offers[3][a].insert_layer = merging.offers[4][b].insert_layer
          /\ merging.offers[3][a].p # merging.offers[4][b].p
          /\ hash_pos(merging.offers[3][a].p) = hash_pos(merging.offers[4][b].p)
          /\ merging.offers[3][a].status = TO_BP /\ merging.offers[4][b].status = TO_BP
          /\ Cardinality({ i \in 1 .. Len(move_bounds[merging.offers[3][a].insert_layer]) :
                hash_pos(move_bounds[merging.offers[3][a].insert_layer][i].state.target_position)
                  = hash_pos(merging.offers[3][a].p) }) = 1

----------------------------------------------------------------------------
(* organic_smooth_branches_avoid_collisions on a branch of three spheres.  *)
(* Lengths are in units of 0.01 mm and positions are points of a line; the *)
(* collision of a layer is given by the end points of its outline (the     *)
(* lines of the LayerCollisionCache).  One step of SpecNudge is one turn   *)
(* of the loop over iter: the spheres of a turn read only the positions    *)
(* backed up before the turn, so the parallel_for has one outcome.         *)

collision_extra_gap == 10
max_nudge_collision_avoidance == 50
max_nudge_smoothing == 20
num_iter == 100
\* slicing_params.layer_height
nudge_layer_height == 20

\* The radii of the spheres, the positions they start from and the layers
\* of the lowest sphere of the branch.
NudgeRadii == { 15, 30 }
NudgeStarts == { 5, 25, 60 }
NudgeBases == { 0, 1 }
NudgeLayers == 0 .. 3

\* The integer part of a quotient and of a square root (float arithmetic
\* rounded to the unit).
quotient(a, b) == IF a >= 0 THEN a \div b ELSE 0 - ((0 - a) \div b)
RECURSIVE sqrt_from(_, _)
sqrt_from(x, s) == IF (s + 1) * (s + 1) > x THEN s ELSE sqrt_from(x, s + 1)
sqrt(x) == sqrt_from(x, 0)

\* The spheres of a branch whose root is on the layer `base': sphere 1 is
\* the root, sphere 3 the tip.  locked is element.parents.empty() ||
\* (link_down == -1 && element.state.layer_idx > 0).
collision_spheres(base, radius, at) ==
    [ i \in 1 .. 3 |->
        [ layer_idx        |-> base + i - 1,
          parents          |-> IF i < 3 THEN << i + 1 >> ELSE << >>,
          element_below_id |-> IF i > 1 THEN i - 1 ELSE NoChild,
          locked           |-> (i = 3) \/ (i = 1 /\ base > 0),
          radius           |-> radius,
          position         |-> at[i],
          prev_position    |-> at[i],
          last_collision_depth |-> 0,
          layer_begin      |-> Max(base, quotient(nudge_layer_height * (base + i - 1) - radius + nudge_layer_height - 1, nudge_layer_height)),
          layer_end        |-> Min(base + 2, quotient(nudge_layer_height * (base + i - 1) + radius, nudge_layer_height)) + 1 ] ]

\* The collisions of a sphere with the lines of the layers it spans: the
\* pairs << collision_depth, hit_point >> of the layers with r2 > 0 whose
\* nearest line is closer than sqrt(r2).
sphere_collisions(s, lines) ==
    { << sqrt(s.radius * s.radius - ((l - s.layer_idx) * nudge_layer_height) * ((l - s.layer_idx) * nudge_layer_height)) - Abs(s.position - b), b >> :
        << l, b >> \in { lb \in (s.layer_begin .. (s.layer_end - 1)) \X UNION { lines[ll] : ll \in NudgeLayers } :
                          /\ lb[2] \in lines[lb[1]]
                          /\ s.radius * s.radius > ((lb[1] - s.layer_idx) * nudge_layer_height) * ((lb[1] - s.layer_idx) * nudge_layer_height)
                          /\ \A c \in lines[lb[1]] : Abs(s.position - lb[2]) <= Abs(s.position - c)
                          /\ Abs(s.position - lb[2]) * Abs(s.position - lb[2])
                               <= s.radius * s.radius - ((lb[1] - s.layer_idx) * nudge_layer_height) * ((lb[1] - s.layer_idx) * nudge_layer_height) } }

\* last_collision_depth and last_collision after the loop over the layers
\* (the deepest collision; 0 - 1 stands for -max when there is none).
last_collision_of(s, lines) ==
    LET hits == sphere_collisions(s, lines)
    IN  IF hits = {} THEN << 0 - 1, 0 >>
        ELSE CHOOSE h \in hits : \A g \in hits : h[1] > g[1] \/ (h[1] = g[1] /\ h[2] <= g[2])

\* if (collision_sphere.last_collision_depth > EPSILON) ++ num_moved;
\* EPSILON (0.0001 mm) is below the unit.
counts_as_moved(depth) == depth > 0

\* Vec2d::normalized() in one dimension (a zero vector stays as it is).
normalized(v) == IF v > 0 THEN 1 ELSE IF v < 0 THEN 0 - 1 ELSE 0

\* The position after the nudge away from the collision: nudge_vector is
\* the unit vector times nudge_dist and is added times nudge_dist (in mm).
nudged_position(s, hit) ==
    IF hit[1] > 0
    THEN LET nudge_dist == Min(Max(0, hit[1] + collision_extra_gap), max_nudge_collision_avoidance)
         IN  s.position + normalized(s.position - hit[2]) * quotient(nudge_dist * nudge_dist, 100)
    ELSE s.position

RECURSIVE sum_prev_positions(_, _, _)
sum_prev_positions(spheres, parents, k) ==
    IF k > Len(parents) THEN 0
    ELSE spheres[parents[k]].prev_position + sum_prev_positions(spheres, parents, k + 1)

\* The position after the Laplacian smoothing (smoothing_factor 0.5; every
\* parent weighs radius, the element below weighs as much as all parents).
smoothed_position(spheres, s, old_pos) ==
    LET w      == s.radius
        weight == w * Len(s.parents)
        total  == IF s.element_below_id # NoChild
                  THEN w * sum_prev_positions(spheres, s.parents, 1) + weight * spheres[s.element_below_id].prev_position
                  ELSE w * sum_prev_positions(spheres, s.parents, 1)
        avg    == quotient(total, IF s.element_below_id # NoChild THEN 2 * weight ELSE weight)
        shift  == quotient(avg - old_pos, 2)
    IN  old_pos + normalized(shift) * Min(Max(0, Abs(shift)), max_nudge_smoothing)

\* The body of the parallel_for for one sphere, prev_position backed up.
nudge_sphere(spheres, lines, i) ==
    LET s == [ spheres[i] EXCEPT !.prev_position = spheres[i].position ]
        backed == [ j \in 1 .. Len(spheres) |-> [ spheres[j] EXCEPT !.prev_position = spheres[j].position ] ]
        hit == last_collision_of(s, lines)
    IN  IF s.locked THEN s
        ELSE [ s EXCEPT !.last_collision_depth = hit[1],
                        !.position = smoothed_position(backed, s, nudged_position(s, hit)) ]

\* A count of the spheres that a turn of the loop displaces, by the nudge
\* or by the smoothing.
num_moved_of_displaced(spheres, lines) ==
    Cardinality({ i \in 1 .. Len(spheres) : nudge_sphere(spheres, lines, i).position # spheres[i].position })

\* num_moved of a turn of the loop.
num_moved_of(spheres, lines) ==
    Cardinality({ i \in 1 .. Len(spheres) :
        /\ ~spheres[i].locked
        /\ last_collision_of(spheres[i], lines)[1] > 0
        /\ counts_as_moved(last_collision_of(spheres[i], lines)[1]) })

InitNudge ==
    /\ config \in { c \in ConfigSet : c.num_threads = 1 /\ ~c.support_rests_on_model }
    /\ object = EmptyObject
    /\ move_bounds = NoMoveBounds
    /\ pc = "organic_smooth_branches_avoid_collisions"
    /\ layer_idx = 0
    /\ merge_every_x_layers = 1
    /\ last_merge_layer_idx = 0
    /\ new_element = FALSE
    /\ overhangs = [ l \in ObjectLayers |-> {} ]
    /\ snapshot = NoMoveBounds
    /\ cancelled = FALSE
    /\ output = NoOutput
    /\ \E base \in NudgeBases, radius \in NudgeRadii, at \in [ 1 .. 3 -> NudgeStarts ],
          walls \in SUBSET NudgeLayers :
          merging = [ spheres   |-> collision_spheres(base, radius, at),
                      lines     |-> [ l \in NudgeLayers |-> IF l \in walls THEN { 0 } ELSE {} ],
                      iter      |-> 0,
                      num_moved |-> 0 - 1,
                      result_on_layer |-> << >> ]

\* The loop over iter is left: by the break or by its bound.
nudge_loop_left(m) == m.num_moved = 0 \/ m.iter = num_iter

nudge_unchanged ==
    UNCHANGED << config, object, move_bounds, pc, layer_idx, merge_every_x_layers,
                 last_merge_layer_idx, new_element, overhangs, snapshot, cancelled, output >>

\* One turn of the loop over iter.
NudgeIteration ==
    /\ pc = "organic_smooth_branches_avoid_collisions"
    /\ ~nudge_loop_left(merging)
    /\ merging' = [ merging EXCEPT
                      !.spheres   = [ i \in 1 .. Len(merging.spheres) |-> nudge_sphere(merging.spheres, merging.lines, i) ],
                      !.num_moved = num_moved_of(merging.spheres, merging.lines),
                      !.iter      = @ + 1 ]
    /\ nudge_unchanged

\* The positions are written back to result_on_layer.
NudgeWriteBack ==
    /\ pc = "organic_smooth_branches_avoid_collisions"
    /\ nudge_loop_left(merging)
    /\ merging.result_on_layer = << >>
    /\ merging' = [ merging EXCEPT
                      !.result_on_layer = [ i \in 1 .. Len(merging.spheres) |-> merging.spheres[i].position ] ]
    /\ nudge_unchanged

NextNudge == NudgeIteration \/ NudgeWriteBack

SpecNudge == InitNudge /\ [][NextNudge]_vars

\* A turn of the nudging loop has just been made.
nudge_turn == pc = "organic_smooth_branches_avoid_collisions" /\ merging'.iter = merging.iter + 1

\* C23 as stated: the loop makes at most 100 turns and is left before the
\* 100th exactly when no sphere moved by more than epsilon in the turn just
\* made; locked spheres keep their position in every turn.
C23_EndsWhenNoSphereMoved ==
    [][ nudge_turn =>
          /\ merging'.iter <= num_iter
          /\ (nudge_loop_left(merging') /\ merging'.iter < num_iter)
               <=> (\A i \in 1 .. 3 : merging'.spheres[i].position = merging.spheres[i].position)
          /\ \A i \in 1 .. 3 : merging.spheres[i].locked =>
                merging'.spheres[i].position = merging.spheres[i].position ]_vars

\* C23: the loop makes at most 100 turns and is left before the 100th
\* exactly when, in the turn just made, no sphere that is not locked had a
\* collision deeper than epsilon (a sphere may still have been moved by the
\* smoothing); locked spheres keep their position in every turn.
C23_EndsWhenNoCollision ==
    [][ nudge_turn =>
          /\ merging'.iter <= num_iter
          /\ (nudge_loop_left(merging') /\ merging'.iter < num_iter)
               <=> (\A i \in 1 .. 3 : ~merging.spheres[i].locked =>
                        \A h \in sphere_collisions(merging.spheres[i], merging.lines) : h[1] <= 0)
          /\ \A i \in 1 .. 3 : merging.spheres[i].locked =>
                merging'.spheres[i].position = merging.spheres[i].position ]_vars

\* The loop was left by the break after more than one turn, the spheres
\* having been moved by the smoothing in the last turn, next to a locked tip.
C23_Witness ==
    /\ pc = "organic_smooth_branches_avoid_collisions"
    /\ DOMAIN merging = { "spheres", "lines", "iter", "num_moved", "result_on_layer" }
    /\ merging.num_moved = 0
    /\ merging.iter > 1 /\ merging.iter < num_iter
    /\ merging.spheres[3].locked /\ ~merging.spheres[2].locked
    /\ merging.spheres[2].position # merging.spheres[2].prev_position

\* The loop made all its 100 turns.
C23_AllTurns ==
    /\ pc = "organic_smooth_branches_avoid_collisions"
    /\ DOMAIN merging = { "spheres", "lines", "iter", "num_moved", "result_on_layer" }
    /\ merging.iter = num_iter /\ merging.num_moved > 0

----------------------------------------------------------------------------
\* What the verification at the end of create_nodes_from_area expects of a
\* tree: every element that is not flagged deleted has a position, each of
\* its parents is not flagged deleted and has a position, and the element
\* is at least as thick as each parent.
tree_connected(mb) ==
    \A l \in DOMAIN mb : \A i \in 1 .. Len(mb[l]) :
        ~mb[l][i].state.deleted =>
            /\ result_on_layer_is_set(mb[l][i].state)
            /\ \A k \in 1 .. Len(mb[l][i].parents) :
                  /\ has_layer(mb, l + 1)
                  /\ mb[l][i].parents[k] + 1 \in 1 .. Len(mb[l + 1])
                  /\ ~mb[l + 1][mb[l][i].parents[k] + 1].state.deleted
                  /\ result_on_layer_is_set(mb[l + 1][mb[l][i].parents[k] + 1].state)
                  /\ getRadius(mb[l][i].state) >= getRadius(mb[l + 1][mb[l][i].parents[k] + 1].state)

\* C25: when create_nodes_from_area has processed all layers, before and
\* after remove_deleted_elements, every element that is not flagged deleted
\* has result_on_layer set, none of its parents is flagged deleted, every
\* parent has result_on_layer set and the element's radius is not smaller
\* than the radius of a parent.
C25_TreeConnected ==
    (pc = "draw_areas" /\ ~cancelled) => (tree_connected(snapshot) /\ tree_connected(move_bounds))

\* A resolved tree in which the gracious contact flagged elements deleted
\* and a kept element has several parents, one of them thinner than itself.
C25_Witness ==
    /\ pc = "draw_areas" /\ ~cancelled
    /\ \E l \in DOMAIN snapshot : \E i \in 1 .. Len(snapshot[l]) : snapshot[l][i].state.deleted
    /\ \E l \in DOMAIN move_bounds : \E i \in 1 .. Len(move_bounds[l]) :
          /\ Len(move_bounds[l][i].parents) >= 2
          /\ getRadius(move_bounds[l][i].state) > getRadius(move_bounds[l + 1][move_bounds[l][i].parents[1] + 1].state)

----------------------------------------------------------------------------
(* The movement distances of increase_areas_one_layer, on the pipeline     *)
(* under profiles whose slow distance is at most the fast one, with and    *)
(* without a radius that keeps growing below the tip.                      *)

SpeedConfigs ==
    { [ BaseConfig EXCEPT !.num_threads = 2, !.maximum_move_distance = fast,
                          !.maximum_move_distance_slow = slow,
                          !.branch_radius_increase_per_layer = grow ] :
        fast \in 2 .. 3, slow \in 1 .. 3, grow \in 0 .. 1 }

InitSpeeds ==
    /\ config \in { c \in SpeedConfigs : c.maximum_move_distance_slow <= c.maximum_move_distance }
    /\ object \in LedgeObjects
    /\ move_bounds = NoMoveBounds
    /\ pc = "generate_overhangs"
    /\ layer_idx = 0
    /\ merge_every_x_layers = 1
    /\ last_merge_layer_idx = 0
    /\ new_element = FALSE
    /\ overhangs = [ l \in ObjectLayers |-> {} ]
    /\ snapshot = NoMoveBounds
    /\ cancelled = FALSE
    /\ output = NoOutput
    /\ merging = NoMerging

SpecSpeeds == InitSpeeds /\ [][NextProfiles]_vars

\* const coord_t fast_speed = config.maximum_move_distance + extra_speed;
fast_speed_of(parent) == config.maximum_move_distance + extra_speeds(parent).extra_speed

\* const coord_t slow_speed = config.maximum_move_distance_slow + extra_speed + extra_slow_speed;
slow_speed_of(parent) ==
    config.maximum_move_distance_slow + extra_speeds(parent).extra_speed + extra_speeds(parent).extra_slow_speed

\* C26: for every element that increase_areas_one_layer propagates, under
\* a configuration with maximum_move_distance_slow <= maximum_move_distance,
\* the slow movement distance (maximum_move_distance_slow + extra_speed +
\* extra_slow_speed) does not exceed the fast movement distance
\* (maximum_move_distance + extra_speed).
C26_SlowNotFaster ==
    (pc = "create_layer_pathing" /\ has_layer(move_bounds, layer_idx)) =>
        \A i \in 1 .. Len(move_bounds[layer_idx]) :
            slow_speed_of(move_bounds[layer_idx][i]) <= fast_speed_of(move_bounds[layer_idx][i])

----------------------------------------------------------------------------
\* How often the index idx occurs in the parents lists of a layer.
RECURSIVE parent_count(_, _, _)
parent_count(layer, idx, n) ==
    IF n > Len(layer) THEN 0
    ELSE Cardinality({ k \in 1 .. Len(layer[n].parents) : layer[n].parents[k] = idx })
         + parent_count(layer, idx, n + 1)

\* An iteration of create_layer_pathing has just filled the layer below
\* layer_idx.
pathing_step_taken ==
    /\ pc = "create_layer_pathing" /\ layer_idx >= 1 /\ has_layer(move_bounds, layer_idx)
    /\ layer_idx' = layer_idx - 1
    /\ pc' \in { "create_layer_pathing", "create_nodes_from_area" }

C27_FailedWitness ==
    /\ pc = "create_layer_pathing"
    /\ has_layer(move_bounds, layer_idx + 1) /\ has_layer(move_bounds, layer_idx)
    /\ move_bounds[layer_idx] # << >>
    /\ \E k \in 1 .. Len(move_bounds[layer_idx + 1]) :
          parent_count(move_bounds[layer_idx], k - 1, 1) = 0

----------------------------------------------------------------------------
(* merge_influence_areas round by round.  SpecBuckets hands the function a *)
(* vector of areas that come from tips one layer above; one step is the    *)
(* first merge iteration (tree, initial buckets, merge of the leaves) or   *)
(* one turn of the while loop.  merging keeps the vector and the buckets,  *)
(* and, for the round just made, the vector before it, the ranges that    *)
(* were handed to its tasks and the buckets that no task was given.        *)

MaxInputSize == 9
BucketThreads == 1 .. 3
BucketCells == { 3, 4 }

BucketConfigs == { [ BaseConfig EXCEPT !.num_threads = t ] : t \in BucketThreads }

\* The area that increase_areas_one_layer leaves for the tip number idx,
\* with BucketCells as its influence area; two areas are merged when they
\* agree on use_min_xy_dist.
bucket_area(idx, use_min_xy_dist, lidx) ==
    [ pool_area(idx, TO_BP_SAFE, 1, lidx) EXCEPT
        !.state.use_min_xy_dist = use_min_xy_dist,
        !.areas = [ influence_areas |-> BucketCells, to_bp_areas |-> BucketCells, to_model_areas |-> {} ] ]

InitBuckets ==
    /\ config \in BucketConfigs
    /\ object = EmptyObject
    /\ move_bounds = NoMoveBounds
    /\ pc = "merge_influence_areas"
    /\ layer_idx = 2
    /\ merge_every_x_layers = 1
    /\ last_merge_layer_idx = 0
    /\ new_element = FALSE
    /\ overhangs = [ l \in ObjectLayers |-> {} ]
    /\ snapshot = NoMoveBounds
    /\ cancelled = FALSE
    /\ output = NoOutput
    /\ \E n \in 2 .. MaxInputSize : \E use_min_xy_dist \in [ 1 .. n -> BOOLEAN ] :
          merging = [ vec     |-> [ i \in 1 .. n |-> bucket_area(i - 1, use_min_xy_dist[i], 2) ],
                      buckets |-> << >>,
                      before  |-> << >>,
                      tasks   |-> << >>,
                      waiting |-> << >>,
                      round   |-> 0 ]

buckets_unchanged ==
    UNCHANGED << config, object, move_bounds, pc, layer_idx, merge_every_x_layers,
                 last_merge_layer_idx, new_element, overhangs, snapshot, cancelled, output >>

\* The tree is built, the initial buckets are prepared and the first merge
\* iteration is run: one task for each of the num_buckets_initial buckets.
MergeFirstRound ==
    /\ pc = "merge_influence_areas" /\ merging.round = 0
    /\ \E sorted \in { build_modify_input(merging.vec) }, ib \in { initial_buckets(Len(merging.vec)) } :
         \E r \in { merge_leaves_round(layer_idx, sorted, ib.buckets, 0, ib.num_buckets_initial) } :
            merging' = [ vec     |-> r.vec,
                         buckets |-> r.buckets,
                         before  |-> sorted,
                         tasks   |-> [ i \in 1 .. ib.num_buckets_initial |-> << ib.buckets[i] >> ],
                         waiting |-> SubSeq(ib.buckets, ib.num_buckets_initial + 1, Len(ib.buckets)),
                         round   |-> 1 ]
    /\ buckets_unchanged

\* One turn of the while loop: one task for each pair of buckets, then the
\* odd buckets are removed.
MergeFoldRound ==
    /\ pc = "merge_influence_areas" /\ merging.round >= 1 /\ Len(merging.buckets) > 1
    /\ \E r \in { merge_pairs_round(layer_idx, merging.vec, merging.buckets, 0) } :
            merging' = [ vec     |-> r.vec,
                         buckets |-> [ i \in 1 .. (Len(r.buckets) + 1) \div 2 |-> r.buckets[2 * i - 1] ],
                         before  |-> merging.vec,
                         tasks   |-> [ i \in 1 .. Len(merging.buckets) \div 2 |->
                                         << merging.buckets[2 * i - 1], merging.buckets[2 * i] >> ],
                         waiting |-> SubSeq(merging.buckets, 2 * (Len(merging.buckets) \div 2) + 1,
                                            Len(merging.buckets)),
                         round   |-> merging.round + 1 ]
    /\ buckets_unchanged

NextBuckets == MergeFirstRound \/ MergeFoldRound

SpecBuckets == InitBuckets /\ [][NextBuckets]_vars

\* The positions of a range, and the positions a task may touch: from the
\* begin of its first range to the end of its last one.
range_positions(range) == range.first .. (range.second - 1)
task_positions(task) == task[1].first .. (task[Len(task)].second - 1)

\* The ranges of the tasks of a round are not empty, the source range of a
\* pair lies after its destination range, and no position belongs to two
\* tasks.
tasks_separate(tasks) ==
    /\ \A t \in 1 .. Len(tasks) : \A k \in 1 .. Len(tasks[t]) : tasks[t][k].first < tasks[t][k].second
    /\ \A t \in 1 .. Len(tasks) : Len(tasks[t]) = 2 => tasks[t][1].second <= tasks[t][2].first
    /\ \A t \in 1 .. Len(tasks), u \in 1 .. Len(tasks) :
          t # u => task_positions(tasks[t]) \cap task_positions(tasks[u]) = {}

\* The positions of the elements of vec that were not merged away.
live_positions(vec) == { i - 1 : i \in { k \in 1 .. Len(vec) : has_influence_area(vec[k]) } }

\* The positions in the ranges handed to the tasks of a round.
handed_positions(tasks) ==
    UNION { range_positions(tasks[t][k]) : << t, k >> \in { tk \in (1 .. Len(tasks)) \X (1 .. 2) : tk[2] <= Len(tasks[tk[1]]) } }

bucket_round_made ==
    /\ pc = "merge_influence_areas"
    /\ DOMAIN merging = { "vec", "buckets", "before", "tasks", "waiting", "round" }
    /\ merging.round >= 1

\* C28 as stated: in the first merge round and in every fold round the
\* ranges handed to the tasks are non-empty, pairwise disjoint, the source
\* after the destination, no element belongs to two tasks, and together
\* the ranges contain every element that has not been merged away.
C28_RangesCoverAll ==
    bucket_round_made =>
        /\ tasks_separate(merging.tasks)
        /\ live_positions(merging.before) \subseteq handed_positions(merging.tasks)

\* C28: in the first merge round and in every fold round the ranges handed
\* to the tasks are non-empty, pairwise disjoint, the source after the
\* destination, and no element belongs to two tasks; the elements that have
\* not been merged away are in these ranges or in the one bucket at the end
\* that has no partner in the round and is left to a later round.
C28_RangesSeparate ==
    bucket_round_made =>
        /\ tasks_separate(merging.tasks)
        /\ Len(merging.waiting) <= 1
        /\ \A w \in 1 .. Len(merging.waiting) :
              /\ merging.waiting[w].first < merging.waiting[w].second
              /\ \A p \in handed_positions(merging.tasks) : p < merging.waiting[w].first
        /\ live_positions(merging.before)
              \subseteq (handed_positions(merging.tasks)
                          \cup UNION { range_positions(merging.waiting[w]) : w \in 1 .. Len(merging.waiting) })
        /\ live_positions(merging.vec)
             = UNION { range_positions(merging.buckets[b]) : b \in 1 .. Len(merging.buckets) }

\* A fold round with two pairs of buckets was made, a bucket without a
\* partner was left waiting and an element was merged away.
C28_Witness ==
    /\ bucket_round_made
    /\ merging.round >= 2
    /\ Len(merging.tasks) >= 2
    /\ Len(merging.waiting) = 1
    /\ Cardinality(live_positions(merging.vec)) < Cardinality(live_positions(merging.before))

----------------------------------------------------------------------------
(* The merge interval of create_layer_pathing.                             *)

\* The iteration of create_layer_pathing about to run at layer_idx, whose
\* layer is not empty.
pathing_iteration ==
    create_layer_pathing_step(layer_idx, move_bounds[layer_idx], move_bounds[layer_idx - 1],
        merge_every_x_layers, last_merge_layer_idx, new_element)

\* The interval the merge pass of the iteration starts with: a new element
\* resets it to 1 before the pass.
interval_before_pass == IF new_element THEN 1 ELSE merge_every_x_layers

\* C29: a merge pass increases merge_every_x_layers only if it merged no two
\* influence areas and no new element was present; a merge pass in which a
\* pairwise merge succeeded leaves the interval as it was, and the interval
\* never exceeds max_merge_every_x_layers.
C29_IntervalKeptByMerge ==
    [][ (pathing_step_taken /\ move_bounds[layer_idx] # << >>) =>
          /\ merge_every_x_layers' <= max_merge_every_x_layers
          /\ (merge_every_x_layers' > interval_before_pass =>
                 /\ pathing_iteration.merge_this_layer
                 /\ ~pathing_iteration.merged_some
                 /\ ~new_element)
          /\ ((pathing_iteration.merge_this_layer /\ pathing_iteration.merged_some) =>
                 merge_every_x_layers' = interval_before_pass) ]_vars

\* What the code does: reduced_by_merging compares the length of the vector
\* before and after merge_influence_areas, which never shortens the vector,
\* so the interval grows after every merge pass without a new element.
C29_IntervalGrowsAfterMerge ==
    [][ (pathing_step_taken /\ move_bounds[layer_idx] # << >>) =>
          /\ merge_every_x_layers' <= max_merge_every_x_layers
          /\ ~pathing_iteration.reduced_by_merging
          /\ merge_every_x_layers' =
                IF pathing_iteration.merge_this_layer /\ ~new_element
                THEN Min(max_merge_every_x_layers, interval_before_pass + 1)
                ELSE interval_before_pass ]_vars

----------------------------------------------------------------------------
(* generate_overhangs layer by layer, with automatic and enforced supports, *)
(* support enforcers and blockers (bridges supported).  SpecOverhangs runs  *)
(* the body of the parallel_for once for every layer_id of its range, in    *)
(* any order.                                                              *)

MaxEnforceLayers == 4
OverhangLayerCounts == { 2, 3 }
OverhangSlices == { { 0 }, { 0, 1, 2 } }

\* enforcer_overhang_offset, the tip diameter, in lattice steps.
enforcer_overhang_offset == 1

\* Sliced objects of layer_count layers.
OverhangObjects ==
    UNION { [ 0 .. (n - 1) -> OverhangSlices ] : n \in OverhangLayerCounts }

\* The per-layer polygons of the support enforcers or blockers of an object
\* of n layers: none at all, or one entry per layer.
VolumeLayers(n) ==
    { << >>,
      [ z \in 0 .. (n - 1) |-> { 2 } ],
      [ z \in 0 .. (n - 1) |-> IF z = 1 THEN { 1, 2 } ELSE {} ] }

\* What a read outside of a vector may give.
GarbagePolygons == { {}, { 0 } }

\* num_overhang_layers, the end of the range of the parallel_for.
num_overhang_layers(out_size, support_auto, support_enforce_layers, enforcers_layers) ==
    IF support_auto THEN out_size
    ELSE Max(support_enforce_layers, Cardinality(DOMAIN enforcers_layers))

\* The body of the loop for layer_id, both layers being layers of the object:
\* the overhangs stored to out[layer_id].
layer_overhangs(layer_id, support_auto, support_enforce_layers, enforcers_layers, blockers_layers) ==
    LET current_layer == object[layer_id]
        lower_layer == object[layer_id - 1]
        enforced_layer == layer_id < support_enforce_layers
        offset_now == IF enforced_layer THEN 0 ELSE lower_layer_offset
        calculated == support_auto \/ enforced_layer
        raw_overhangs_calculated == calculated /\ offset_now = 0
        full == IF offset_now = 0 THEN current_layer \ lower_layer
                ELSE current_layer \ Offset(lower_layer, offset_now)
        blocked == IF ~(enforced_layer \/ DOMAIN blockers_layers = {} \/ blockers_layers[layer_id] = {})
                   THEN full \ blockers_layers[layer_id]
                   ELSE full
        overhangs_auto == IF calculated THEN blocked ELSE {}
        enforced_overhangs ==
            IF DOMAIN enforcers_layers # {} /\ enforcers_layers[layer_id] # {}
            THEN (current_layer \ lower_layer) \cap enforcers_layers[layer_id]
            ELSE {}
    IN  IF enforced_overhangs # {}
        THEN overhangs_auto \cup (Offset(enforced_overhangs, enforcer_overhang_offset) \ lower_layer)
        ELSE overhangs_auto

InitOverhangs ==
    /\ config = BaseConfig
    /\ object \in OverhangObjects
    /\ move_bounds = NoMoveBounds
    /\ pc = "generate_overhangs"
    /\ layer_idx = 0
    /\ merge_every_x_layers = 1
    /\ last_merge_layer_idx = 0
    /\ new_element = FALSE
    /\ overhangs = [ l \in DOMAIN object |-> {} ]
    /\ snapshot = NoMoveBounds
    /\ cancelled = FALSE
    /\ output = NoOutput
    /\ \E support_auto \in BOOLEAN, support_enforce_layers \in 0 .. MaxEnforceLayers :
         \E enforcers_layers \in VolumeLayers(Cardinality(DOMAIN object)),
            blockers_layers \in VolumeLayers(Cardinality(DOMAIN object)) :
            merging = [ support_auto           |-> support_auto,
                        support_enforce_layers |-> support_enforce_layers,
                        enforcers_layers       |-> enforcers_layers,
                        blockers_layers        |-> blockers_layers,
                        range                  |-> 1 .. (num_overhang_layers(Cardinality(DOMAIN object),
                                                            support_auto, support_enforce_layers,
                                                            enforcers_layers) - 1),
                        visited                |-> {},
                        written                |-> {},
                        out                    |-> [ l \in DOMAIN object |-> {} ] ]

overhangs_unchanged ==
    UNCHANGED << config, object, move_bounds, layer_idx, merge_every_x_layers,
                 last_merge_layer_idx, new_element, snapshot, cancelled, output >>

\* One turn of the loop body for a layer_id of the range whose layers exist.
OverhangsVisit ==
    /\ pc = "generate_overhangs"
    /\ \E layer_id \in merging.range \ merging.visited :
          /\ layer_id \in DOMAIN object
          /\ merging' = [ merging EXCEPT
                !.visited = @ \cup { layer_id },
                !.written = @ \cup { layer_id },
                !.out = [ @ EXCEPT ![layer_id] =
                            layer_overhangs(layer_id, merging.support_auto, merging.support_enforce_layers,
                                merging.enforcers_layers, merging.blockers_layers) ] ]
    /\ UNCHANGED << pc, overhangs >>
    /\ overhangs_unchanged

\* One turn of the loop body for a layer_id of the range past the last layer:
\* get_layer(layer_id) and out[layer_id] are accesses outside of their
\* vectors.  The turn faults, or it stores what it made of the memory it
\* read to the memory behind out.
OverhangsVisitBeyond ==
    /\ pc = "generate_overhangs"
    /\ \E layer_id \in merging.range \ merging.visited :
          /\ layer_id \notin DOMAIN object
          /\ \/ /\ pc' = "fault"
                /\ merging' = [ merging EXCEPT !.visited = @ \cup { layer_id } ]
             \/ /\ pc' = pc
                /\ \E garbage \in GarbagePolygons :
                      merging' = [ merging EXCEPT
                          !.visited = @ \cup { layer_id },
                          !.written = @ \cup { layer_id },
                          !.out = (layer_id :> garbage) @@ @ ]
    /\ UNCHANGED overhangs
    /\ overhangs_unchanged

\* The parallel_for is through: out is returned.
OverhangsReturn ==
    /\ pc = "generate_overhangs"
    /\ merging.range \subseteq merging.visited
    /\ overhangs' = [ l \in DOMAIN object |-> merging.out[l] ]
    /\ pc' = "precalculate"
    /\ UNCHANGED merging
    /\ overhangs_unchanged

NextOverhangs == OverhangsVisit \/ OverhangsVisitBeyond \/ OverhangsReturn

SpecOverhangs == InitOverhangs /\ [][NextOverhangs]_vars

overhangs_run ==
    DOMAIN merging = { "support_auto", "support_enforce_layers", "enforcers_layers",
                       "blockers_layers", "range", "visited", "written", "out" }

\* C30: for every support_auto, support_enforce_layers and number of
\* enforcer layers, generate_overhangs visits only the layer indices of
\* [1, layer_count): it reads no layer and writes no overhang entry at an
\* index >= layer_count, and overhangs[0] is always empty.
C30_VisitsWithinLayers ==
    overhangs_run =>
        /\ merging.visited \subseteq 1 .. (Cardinality(DOMAIN object) - 1)
        /\ merging.written \subseteq 1 .. (Cardinality(DOMAIN object) - 1)
        /\ merging.out[0] = {}
        /\ overhangs[0] = {}

\* What holds of the code: the visited indices are those of
\* [1, num_overhang_layers), which lie within the layers when supports are
\* automatic or support_enforce_layers does not exceed the layer count, and
\* the entry of the layer 0 is never written.
C30_VisitsWithinRange ==
    overhangs_run =>
        /\ merging.visited \subseteq merging.range
        /\ merging.written \subseteq merging.visited
        /\ 0 \notin merging.visited
        /\ merging.out[0] = {} /\ overhangs[0] = {}
        /\ (merging.support_auto \/ merging.support_enforce_layers <= Cardinality(DOMAIN object)) =>
              merging.visited \subseteq 1 .. (Cardinality(DOMAIN object) - 1)
        /\ pc = "precalculate" =>
              \A l \in DOMAIN object \ { 0 } :
                  l \in merging.range =>
                      overhangs[l] = layer_overhangs(l, merging.support_auto, merging.support_enforce_layers,
                                         merging.enforcers_layers, merging.blockers_layers)

\* A run with enforced layers only that is through, having stored overhangs
\* taken from a support enforcer.
C30_EnforcedRun ==
    /\ overhangs_run
    /\ pc = "precalculate"
    /\ ~merging.support_auto
    /\ merging.support_enforce_layers = 2
    /\ DOMAIN merging.enforcers_layers # {}
    /\ \E l \in DOMAIN object : overhangs[l] # {}

=========================================================================
